---- MODULE Spec2Model ----
(***************************************************************************)
(* Verification model of the training orchestration in tf/tfprocess2.py:   *)
(* the process_loop / process / train_step scheduler, the gradient         *)
(* pipeline (merge_grads, apply_grads), the learning-rate schedule and the *)
(* stochastic weight average (update_swa, replace_weights).                *)
(*                                                                         *)
(* Tensors are float32 in the program.  A float is modelled exactly as a   *)
(* record [s, m, e] standing for s * m * 2^e with a 24 bit significand,    *)
(* and every arithmetic operator rounds to nearest, ties to even, as the   *)
(* float32 kernels do.  Overflow, subnormals, NaN and signed zeros are     *)
(* outside the modelled range.                                             *)
(***************************************************************************)
EXTENDS Integers, Sequences, FiniteSets, TLC

\* ------------------------------------------------------------------------
\* float32 arithmetic
\* ------------------------------------------------------------------------

Two12 == 4096
Two18 == 262144
Two23 == 8388608
Two24 == 16777216

RECURSIVE Pow2(_)
Pow2(k) == IF k = 0 THEN 1 ELSE 2 * Pow2(k - 1)

RECURSIVE BitLen(_)
BitLen(m) == IF m = 0 THEN 0 ELSE 1 + BitLen(m \div 2)

Zero == [s |-> 1, m |-> 0, e |-> 0]

\* Round the exact magnitude m * 2^e (plus a non-zero tail below the last
\* bit of m when sticky holds) to 24 significant bits, nearest-even.
Round(s, m, e, sticky) ==
    LET n == BitLen(m) IN
    IF n <= 24
    THEN [s |-> s, m |-> m * Pow2(24 - n), e |-> e - (24 - n)]
    ELSE LET k    == n - 24
             q    == m \div Pow2(k)
             r    == m % Pow2(k)
             half == Pow2(k - 1)
             up   == \/ r > half
                     \/ r = half /\ sticky
                     \/ r = half /\ ~sticky /\ q % 2 = 1
             q2   == IF up THEN q + 1 ELSE q
         IN  IF q2 = Two24
             THEN [s |-> s, m |-> Two23, e |-> e + k + 1]
             ELSE [s |-> s, m |-> q2, e |-> e + k]

FromInt(i) ==
    IF i = 0 THEN Zero
    ELSE IF i > 0 THEN Round(1, i, 0, FALSE) ELSE Round(-1, -i, 0, FALSE)

\* i / 2^k, exactly (i a small integer)
Dyadic(i, k) ==
    LET f == FromInt(i) IN IF f.m = 0 THEN Zero ELSE [f EXCEPT !.e = f.e - k]

FNeg(a) == IF a.m = 0 THEN Zero ELSE [a EXCEPT !.s = -a.s]

FAbs(a) == [a EXCEPT !.s = 1]

\* |a| >= |b| for normalised floats
MagGeq(a, b) ==
    \/ b.m = 0
    \/ a.m # 0 /\ (a.e > b.e \/ (a.e = b.e /\ a.m >= b.m))

FLt(a, b) ==
    IF a.s = 1 /\ b.s = 1 THEN ~MagGeq(a, b)
    ELSE IF a.s = -1 /\ b.s = -1 THEN ~MagGeq(b, a)
    ELSE a.s = -1

FLeq(a, b) == a = b \/ FLt(a, b)

FMin(a, b) == IF FLt(b, a) THEN b ELSE a

FMul(a, b) ==
    IF a.m = 0 \/ b.m = 0 THEN Zero
    ELSE LET a1  == a.m \div Two12
             a0  == a.m % Two12
             b1  == b.m \div Two12
             b0  == b.m % Two12
             mid == a1 * b0 + a0 * b1
             t   == (mid % Two12) * Two12 + a0 * b0
             lo  == t % Two24
             hi  == a1 * b1 + (mid \div Two12) + (t \div Two24)
         IN  Round(a.s * b.s, hi * 64 + (lo \div Two18), a.e + b.e + 18,
                   lo % Two18 # 0)

FAdd(a, b) ==
    IF a.m = 0 THEN b
    ELSE IF b.m = 0 THEN a
    ELSE LET x  == IF MagGeq(a, b) THEN a ELSE b
             y  == IF MagGeq(a, b) THEN b ELSE a
             d  == x.e - y.e
         IN  IF d > 30 THEN x
             ELSE LET da == IF d < 6 THEN d ELSE 6
                      r  == d - da
                      Ma == x.m * Pow2(da)
                      Mb == y.m \div Pow2(r)
                      st == y.m % Pow2(r) # 0
                      e0 == y.e + r
                  IN  IF x.s = y.s
                      THEN Round(x.s, Ma + Mb, e0, st)
                      ELSE LET df == Ma - Mb - (IF st THEN 1 ELSE 0)
                           IN  IF df = 0 THEN Zero
                               ELSE Round(x.s, df, e0, st)

FSub(a, b) == FAdd(a, FNeg(b))

RECURSIVE DivBits(_, _, _, _)
DivBits(q, r, d, n) ==
    IF n = 0 THEN <<q, r>>
    ELSE IF 2 * r >= d THEN DivBits(2 * q + 1, 2 * r - d, d, n - 1)
         ELSE DivBits(2 * q, 2 * r, d, n - 1)

\* b is not zero
FDiv(a, b) ==
    IF a.m = 0 THEN Zero
    ELSE LET qr == DivBits(a.m \div b.m, a.m % b.m, b.m, 26)
         IN  Round(a.s * b.s, qr[1], a.e - b.e - 26, qr[2] # 0)

RECURSIVE SqrtBits(_, _, _, _)
SqrtBits(M, i, root, rem) ==
    IF i < -14 THEN <<root, rem>>
    ELSE LET pair == IF i >= 0 THEN (M \div Pow2(2 * i)) % 4 ELSE 0
             rm   == rem * 4 + pair
             tr   == root * 4 + 1
         IN  IF rm >= tr THEN SqrtBits(M, i - 1, 2 * root + 1, rm - tr)
             ELSE SqrtBits(M, i - 1, 2 * root, rm)

\* a is not negative
FSqrt(a) ==
    IF a.m = 0 THEN Zero
    ELSE LET odd == a.e % 2 = 1
             M   == IF odd THEN 2 * a.m ELSE a.m
             E   == IF odd THEN a.e - 1 ELSE a.e
             rr  == SqrtBits(M, 12, 0, 0)
         IN  Round(1, rr[1], (E \div 2) - 14, rr[2] # 0)


\* ------------------------------------------------------------------------
\* bounds of the model
\* ------------------------------------------------------------------------

\* number of weight tensors of the model (each tensor holds one element)
NW == 2
\* total_steps ranges over 2 .. MaxTotalSteps
MaxTotalSteps == 3
\* the global step restored before process_loop is called: 0 .. MaxStart
MaxStart == 4
\* swa_max_n ranges over 0 .. MaxSwaN
MaxSwaN == 3
\* calls made on the object in the SWA specification
MaxOps == 4
\* warmup_steps ranges over 0 .. MaxWarmup
MaxWarmup == 5
MaxBoundary == 2
MaxTestLimit == 3

\* ------------------------------------------------------------------------
\* sequences
\* ------------------------------------------------------------------------

None == <<>>

Min(a, b) == IF a < b THEN a ELSE b

RECURSIVE insert_sorted(_, _)
insert_sorted(a, x) ==
    IF a = <<>> THEN <<x>>
    ELSE IF x < Head(a) THEN <<x>> \o a
    ELSE <<Head(a)>> \o insert_sorted(Tail(a), x)

\* variant: lr_boundaries left in the order of the configuration file
no_sort(a) == a

\* list.sort(): ascending
RECURSIVE sort(_)
sort(a) == IF a = <<>> THEN <<>> ELSE insert_sorted(sort(Tail(a)), Head(a))

\* bisect.bisect_right(a, x) on the 0-indexed list a
RECURSIVE bisect_loop(_, _, _, _)
bisect_loop(a, x, lo, hi) ==
    IF lo < hi
    THEN LET mid == (lo + hi) \div 2
         IN  IF x < a[mid + 1] THEN bisect_loop(a, x, lo, mid)
             ELSE bisect_loop(a, x, mid + 1, hi)
    ELSE lo

bisect_right(a, x) == bisect_loop(a, x, 0, Len(a))


\* ------------------------------------------------------------------------
\* configuration and data
\* ------------------------------------------------------------------------

One      == FromInt(1)
Half     == Dyadic(1, 1)
Quarter  == Dyadic(1, 2)
Eighth   == Dyadic(1, 3)
\* float32(0.1)
Tenth    == [s |-> 1, m |-> 13421773, e |-> -27]
\* float32(0.9): momentum of the SGD optimizer
Momentum == [s |-> 1, m |-> 15099494, e |-> -24]
\* float32(0.01): initial value of active_lr
InitialActiveLr == [s |-> 1, m |-> 10737418, e |-> -30]
\* cfg["training"].get("max_grad_norm", 10000.0)
DefaultMaxGradNorm == FromInt(10000)

\* The batch tuples the data pipeline can yield, by identity.
Batches == {1, 2}

\* Gradient of the loss of batch b on replica r with respect to weight i.
GradOf(b, r, i) == FromInt((IF b = 1 THEN 1 ELSE -2) * (i + 2) + (r - 1))

\* Value of a loss metric on batch b.
LossOf(b) == b

\* Value of a thresholded policy accuracy on batch b.
ThrOf(b) == 3 - b

BaseCfg ==
    [ total_steps            |-> MaxTotalSteps,
      train_avg_report_steps |-> 2,
      test_steps             |-> 2,
      test_batches           |-> 2,
      validation             |-> FALSE,
      validation_steps       |-> 2,
      has_checkpoint_steps   |-> FALSE,
      checkpoint_steps       |-> 2,
      swa                    |-> TRUE,
      swa_steps              |-> 1,
      swa_max_n              |-> 0,
      batch_splits           |-> 1,
      replicas               |-> 0,
      has_max_grad_norm      |-> FALSE,
      max_grad_norm          |-> FromInt(4),
      lr_values              |-> <<Half, Quarter>>,
      lr_boundaries          |-> <<2>>,
      warmup_steps           |-> 0,
      train_data             |-> <<1, 2>>,
      test_data              |-> <<2, 1, 1>>,
      test_limit             |-> 0,
      loss_scale             |-> 1,
      rmsprop_optimizer      |-> FALSE,
      nadam_optimizer        |-> FALSE,
      weight_decay           |-> 0,
      lookahead_optimizer    |-> FALSE,
      mask_legal_moves       |-> FALSE,
      batch_size             |-> 4,
      virtual_batch_size     |-> 0,
      validation_data        |-> <<1, 2>> ]

\* replicas = 0 stands for strategy = None, otherwise num_replicas_in_sync.
Configs ==
    { [BaseCfg EXCEPT !.total_steps = t,
                      !.swa = sw,
                      !.swa_max_n = IF t = 2 THEN 0 ELSE MaxSwaN,
                      !.swa_steps = IF bs = 1 THEN 1 ELSE 2,
                      !.batch_splits = bs,
                      !.replicas = r,
                      !.has_checkpoint_steps = ck,
                      !.has_max_grad_norm = mg,
                      !.validation = (bs = 2),
                      !.train_data = IF ck THEN <<2, 1, 1>> ELSE <<1, 2>>] :
        t \in (MaxTotalSteps - 1) .. MaxTotalSteps, sw \in BOOLEAN,
        bs \in {1, 2}, r \in {0, 2}, ck \in BOOLEAN, mg \in BOOLEAN }

\* test_limit = 0 stands for a test dataset that repeats for ever, otherwise the
\* number of batches iter(test_dataset) yields before StopIteration.
FiniteTestConfigs ==
    { [BaseCfg EXCEPT !.swa = sw, !.swa_max_n = MaxSwaN, !.test_limit = n] :
        sw \in BOOLEAN, n \in 1 .. MaxTestLimit }

\* configurations the program does not support: loss scaling under an optimizer
\* other than the wrapped SGD, two optimizer flags at once, and a batch size
\* that is not a multiple of virtual_batch_size (0 stands for None)
MalformedConfigs ==
    { [BaseCfg EXCEPT !.loss_scale = 128, !.rmsprop_optimizer = TRUE],
      [BaseCfg EXCEPT !.loss_scale = 128, !.lookahead_optimizer = TRUE],
      [BaseCfg EXCEPT !.rmsprop_optimizer = TRUE, !.nadam_optimizer = TRUE],
      [BaseCfg EXCEPT !.virtual_batch_size = 3] }

WeightIdx == 1 .. NW

\* Weights after init_net, before any training.
InitialWeights == [i \in WeightIdx |-> Dyadic(2 * i - 3, 1)]

ZeroSlots == [i \in WeightIdx |-> Zero]

\* ------------------------------------------------------------------------
\* learning-rate schedule (process, lines 1054-1061)
\* ------------------------------------------------------------------------

\* variant: the warmup test made on the step within the run
warmup_applies_in_run(c, steps) ==
    c.warmup_steps > 0 /\ steps % c.total_steps < c.warmup_steps

warmup_applies(c, steps) == c.warmup_steps > 0 /\ steps < c.warmup_steps

\* self.lr = lr_values[bisect.bisect_right(lr_boundaries, steps_total)]
scheduled_lr(c, boundaries, steps) ==
    LET steps_total == steps % c.total_steps
    IN  c.lr_values[bisect_right(boundaries, steps_total) + 1]

\* self.lr = self.lr * tf.cast(steps + 1, tf.float32) / self.warmup_steps
warmup_lr(c, lr_, steps) ==
    IF warmup_applies(c, steps)
    THEN FDiv(FMul(lr_, FromInt(steps + 1)), FromInt(c.warmup_steps))
    ELSE lr_

\* ------------------------------------------------------------------------
\* the optimizer objects of init_net (lines 365-386)
\* ------------------------------------------------------------------------

\* the objects init_net can construct
OptimizerObjects ==
    {"SGD", "LossScaleOptimizer", "RMSprop", "Nadam", "MyNadamW", "Lookahead"}

\* self.optimizer after line 386, as the sequence of objects from the one whose
\* apply_gradients is called down to the one it wraps
optimizer(c) ==
    LET sgd   == <<"SGD">>
        scale == IF c.loss_scale # 1 THEN <<"LossScaleOptimizer">> \o sgd ELSE sgd
        rms   == IF c.rmsprop_optimizer THEN <<"RMSprop">> ELSE scale
        nadam == IF c.nadam_optimizer
                 THEN (IF c.weight_decay > 0 THEN <<"MyNadamW">> ELSE <<"Nadam">>)
                 ELSE rms
    IN  IF c.lookahead_optimizer THEN <<"Lookahead">> \o nadam ELSE nadam

\* the object at the bottom of the chain, whose update rule changes the weights
applied_optimizer(c) == optimizer(c)[Len(optimizer(c))]

\* self.orig_optimizer = self.optimizer, taken at line 368
orig_optimizer(c) == "SGD"

\* get_scaled_loss and get_unscaled_gradients are called on self.optimizer when
\* loss_scale != 1; only a LossScaleOptimizer has them
scaling_methods_missing(c) ==
    c.loss_scale # 1 /\ optimizer(c)[1] # "LossScaleOptimizer"

\* ------------------------------------------------------------------------
\* gradient pipeline (train_step, merge_grads, apply_grads)
\* ------------------------------------------------------------------------

\* number of per-replica gradient lists held by the training loop
ReplicaCount(c) == IF c.replicas = 0 THEN 1 ELSE c.replicas

\* process_inner_loop on every replica: one gradient list per replica
new_grads(c, b) ==
    [r \in 1 .. ReplicaCount(c) |-> [i \in WeightIdx |-> GradOf(b, r, i)]]

\* variant: the new gradients replace the accumulated ones
merge_grads_last(grads, new) == new

\* merge_grads, run per replica
merge_grads(grads, new) ==
    [r \in 1 .. Len(grads) |->
        [i \in 1 .. Len(grads[r]) |-> FAdd(grads[r][i], new[r][i])]]

\* variant: the replicas left out of the factor
batch_splits_only(c) == c.batch_splits

effective_batch_splits(c) ==
    IF c.replicas # 0 THEN c.batch_splits * c.replicas ELSE c.batch_splits

\* self.active_lr.assign(self.lr / effective_batch_splits)
active_lr_value(lr_, ebs) == FDiv(lr_, FromInt(ebs))

\* variant: the threshold not scaled by the splits
max_grad_norm_unscaled(c, ebs) ==
    IF c.has_max_grad_norm THEN c.max_grad_norm ELSE DefaultMaxGradNorm

max_grad_norm_value(c, ebs) ==
    FMul(IF c.has_max_grad_norm THEN c.max_grad_norm ELSE DefaultMaxGradNorm,
         FromInt(ebs))

RECURSIVE SumOver(_, _)
SumOver(f, n) == IF n = 0 THEN Zero ELSE FAdd(SumOver(f, n - 1), f[n])

\* orig_optimizer.gradient_aggregator: all-reduce sum over the replicas
gradient_aggregator(grads) ==
    [i \in 1 .. Len(grads[1]) |->
        SumOver([r \in 1 .. Len(grads) |-> grads[r][i]], Len(grads))]

global_norm(g) == FSqrt(SumOver([i \in 1 .. Len(g) |-> FMul(g[i], g[i])], Len(g)))

\* tf.clip_by_global_norm: every gradient times
\* clip_norm * min(1 / norm, 1 / clip_norm)
clip_scale(norm, clip) ==
    IF norm.m = 0 THEN FMul(clip, FDiv(One, clip))
    ELSE FMul(clip, FMin(FDiv(One, norm), FDiv(One, clip)))

clip_by_global_norm(g, clip) ==
    LET scale == clip_scale(global_norm(g), clip)
    IN  [i \in 1 .. Len(g) |-> FMul(g[i], scale)]

\* SGD(momentum=0.9, nesterov=True): accum <- accum*momentum - grad*lr
sgd_accum(a, g, lr_) == FSub(FMul(a, Momentum), FMul(g, lr_))

\* var <- var + accum*momentum - grad*lr, with the new accum
sgd_var(w, a2, g, lr_) == FAdd(w, FSub(FMul(a2, Momentum), FMul(g, lr_)))

\* apply_grads(grads, effective_batch_splits): the new weights and optimizer
\* slots, the clipping threshold used and the returned gradient norm
apply_grads(c, w, a, grads, alr, ebs) ==
    LET g    == gradient_aggregator(grads)
        clip == max_grad_norm_value(c, ebs)
        gc   == clip_by_global_norm(g, clip)
        a2   == [i \in 1 .. Len(w) |-> sgd_accum(a[i], gc[i], alr)]
    IN  [ weights   |-> [i \in 1 .. Len(w) |-> sgd_var(w[i], a2[i], gc[i], alr)],
          slots     |-> a2,
          clip      |-> clip,
          grad_norm |-> global_norm(g) ]

\* ------------------------------------------------------------------------
\* stochastic weight average (update_swa)
\* ------------------------------------------------------------------------

\* variant: the two coefficients exchanged
swa_average_swapped(swa, w, num) ==
    FAdd(FMul(w, FDiv(FromInt(num), FAdd(FromInt(num), One))),
         FMul(swa, FDiv(One, FAdd(FromInt(num), One))))

\* swa * (num / (num + 1.)) + w * (1. / (num + 1.))
swa_average(swa, w, num) ==
    FAdd(FMul(swa, FDiv(FromInt(num), FAdd(FromInt(num), One))),
         FMul(w, FDiv(One, FAdd(FromInt(num), One))))

\* variant: the count not capped
swa_next_count_uncapped(num, max_n) == num + 1

\* min(num + 1., self.swa_max_n)
swa_next_count(num, max_n) == Min(num + 1, max_n)

update_swa_weights(swa, w, num) ==
    [i \in 1 .. Len(w) |-> swa_average(swa[i], w[i], num)]


\* ------------------------------------------------------------------------
\* Metric (lines 86-117)
\* ------------------------------------------------------------------------

NewMetric == [value |-> 0, count |-> 0]

metric_assign(v) == [value |-> v, count |-> 1]

metric_accumulate(m, v) ==
    IF m.count > 0 THEN [value |-> m.value + v, count |-> m.count + 1]
    ELSE metric_assign(v)

\* variant: the count alone is cleared
metric_reset_count_only(m) == [value |-> m.value, count |-> 0]

metric_reset(m) == [value |-> 0, count |-> 0]

\* self.value += other.value; self.count += other.count
metric_merge(m, other) ==
    [value |-> m.value + other.value, count |-> m.count + other.count]

\* get(): self.value when count = 0, otherwise the quotient self.value /
\* self.count, kept as numerator and denominator
metric_get(m) ==
    IF m.count = 0 THEN [num |-> m.value, den |-> 1]
    ELSE [num |-> m.value, den |-> m.count]

RECURSIVE accumulate_all(_, _)
accumulate_all(m, vals) ==
    IF vals = <<>> THEN m
    ELSE accumulate_all(metric_accumulate(m, Head(vals)), Tail(vals))

\* the next n batch tuples of an iterator at position pos of a repeating dataset
next_batches(data, pos, n) ==
    [k \in 1 .. n |-> data[((pos + k - 1) % Len(data)) + 1]]

\* how many of the n calls next(self.test_iter) return a batch
available_batches(c, pos, n) ==
    IF c.test_limit = 0 THEN n ELSE Min(n, c.test_limit - pos)

\* ------------------------------------------------------------------------
\* state
\* ------------------------------------------------------------------------

VARIABLES
    cfg,               \* the configuration of the run
    lr_boundaries,     \* cfg["training"]["lr_boundaries"], sorted by init_net
    pc,                \* position of the training thread
    err,               \* the exception that ended the run, or "none"
    global_step,       \* self.global_step
    steps,             \* the local variable steps of process / train_step
    loop_steps,        \* the local variable steps of process_loop
    loop_i,            \* the index of the for loop of process_loop
    stop,              \* whether the file "stop" exists
    pauses,            \* times the stop file was created
    weights,           \* self.model.weights
    swa_weights,       \* self.swa_weights (None when SWA is disabled)
    swa_count,         \* self.swa_count
    slots,             \* momentum accumulators of the optimizer
    lr,                \* self.lr
    active_lr,         \* self.active_lr
    max_grad_norm,     \* clipping threshold of the last apply_grads
    grads,             \* gradients accumulated by train_step (None at its start)
    batch_id,          \* micro-batches done in the current train_step
    train_pos,         \* batch tuples consumed from train_iter
    test_pos,          \* batch tuples consumed from test_iter
    train_metrics,     \* the fixed Metric objects of self.train_metrics
    test_metrics,      \* the fixed Metric objects of self.test_metrics
    thr_metrics,       \* accuracy_thresholded_metrics (in both lists)
    backup,            \* the local variable backup of a swap/restore
    test_writer,       \* self.test_writer
    validation_writer, \* self.validation_writer
    saved,             \* latest checkpoint of the manager (None when there is none)
    trace,             \* what the current process() call did so far
    h                  \* history of the calls made on the object (SpecSwa)

vars == <<cfg, lr_boundaries, pc, err, global_step, steps, loop_steps, loop_i,
          stop, pauses,
          weights, swa_weights, swa_count, slots, lr, active_lr, max_grad_norm,
          grads, batch_id, train_pos, test_pos, train_metrics, test_metrics,
          thr_metrics, backup, test_writer, validation_writer, saved, trace, h>>

\* groups left alone together
loopVars    == <<loop_steps, loop_i, stop, pauses>>
modelVars   == <<weights, swa_weights, swa_count, slots>>
rateVars    == <<lr, active_lr, max_grad_norm>>
stepVars    == <<grads, batch_id, train_pos>>
metricVars  == <<train_metrics, test_metrics, thr_metrics, test_pos>>
swapVars    == <<backup, test_writer, validation_writer>>
fixedVars   == <<cfg, lr_boundaries, h>>

\* an entry of trace: what was done, the step it was done for, the live weights
EventAt(name, s) == [ev |-> name, step |-> s, w |-> weights]

Event(name) == EventAt(name, steps)

\* the state init() leaves behind for configuration c, resumed at step g
Constructed(c, g, w0) ==
    /\ cfg = c
    /\ lr_boundaries = sort(c.lr_boundaries)
    /\ pc = "init"
    /\ err = "none"
    /\ global_step = g
    /\ steps = g
    /\ loop_steps = g
    /\ loop_i = 0
    /\ stop = FALSE
    /\ pauses = 0
    /\ weights = w0
    /\ swa_weights = IF c.swa THEN w0 ELSE None
    /\ swa_count = 0
    /\ slots = ZeroSlots
    /\ lr = c.lr_values[1]
    /\ active_lr = InitialActiveLr
    /\ max_grad_norm = Zero
    /\ grads = None
    /\ batch_id = 0
    /\ train_pos = 0
    /\ test_pos = 0
    /\ train_metrics = NewMetric
    /\ test_metrics = NewMetric
    /\ thr_metrics = NewMetric
    /\ backup = None
    /\ test_writer = "test"
    /\ validation_writer = "validation"
    /\ saved = None
    /\ trace = <<>>

Init ==
    \E c \in Configs \cup FiniteTestConfigs \cup MalformedConfigs,
       g \in 0 .. MaxStart :
        Constructed(c, g, InitialWeights) /\ h = None


\* ------------------------------------------------------------------------
\* cadence decisions of process and train_step
\* ------------------------------------------------------------------------

\* variant: the test before the first step on the cadence of test_steps
pretest_due_test_steps(c, s) == s % c.test_steps = 0

\* process: the test before the first step, s the global step read at the call
pretest_due(c, s) == s % c.total_steps = 0

report_due(c, s) ==
    s % c.train_avg_report_steps = 0 \/ s % c.total_steps = 0

swa_due(c, s) == c.swa /\ s % c.swa_steps = 0

\* variant: the test on the cadence of test_steps alone
test_due_test_steps_only(c, s) == s % c.test_steps = 0

test_due(c, s) == s % c.test_steps = 0 \/ s % c.total_steps = 0

validation_due(c, s) ==
    c.validation /\ (s % c.validation_steps = 0 \/ s % c.total_steps = 0)

checkpoint_due(c, s) ==
    \/ s % c.total_steps = 0
    \/ c.has_checkpoint_steps /\ s % c.checkpoint_steps = 0

\* process_loop: test_batches //= 2 when SWA is enabled
test_batches_per_pass(c) ==
    IF c.swa THEN c.test_batches \div 2 ELSE c.test_batches

\* where process goes after each of its parts
after_validate(c, s) == IF checkpoint_due(c, s) THEN "checkpoint" ELSE "end"

after_test(c, s) ==
    IF validation_due(c, s)
    THEN (IF c.swa THEN "validate_swa_in" ELSE "validate")
    ELSE after_validate(c, s)

after_update_swa(c, s) == IF test_due(c, s) THEN "test" ELSE after_test(c, s)

\* ------------------------------------------------------------------------
\* process_loop (lines 775-823)
\* ------------------------------------------------------------------------

\* the call: steps = global_step; for _ in range(steps % total_steps, total_steps)
process_loop ==
    /\ pc = "init"
    /\ IF cfg.virtual_batch_size # 0
          /\ cfg.batch_size % cfg.virtual_batch_size # 0
       THEN \* the message is built from self.virtual_batch_sizes, an attribute
            \* the object does not have
            /\ pc' = "raised"
            /\ err' = "AttributeError"
            /\ UNCHANGED <<steps, loop_steps, loop_i>>
       ELSE /\ steps' = global_step
            /\ loop_steps' = global_step
            /\ loop_i' = global_step % cfg.total_steps
            /\ pc' = "loop"
            /\ err' = err
    /\ UNCHANGED <<global_step, stop, pauses, modelVars, rateVars, stepVars,
                   metricVars, swapVars, saved, trace, fixedVars>>

\* one test of the for loop
loop ==
    /\ pc = "loop"
    /\ pc' = IF loop_i < cfg.total_steps THEN "poll" ELSE "returned"
    /\ UNCHANGED <<err, global_step, steps, loopVars, modelVars, rateVars,
                   stepVars, metricVars, swapVars, saved, trace, fixedVars>>

\* while os.path.exists("stop"): time.sleep(1)
sleep ==
    /\ pc = "poll"
    /\ stop
    /\ UNCHANGED vars

poll ==
    /\ pc = "poll"
    /\ ~stop
    /\ pc' = "process"
    /\ UNCHANGED <<err, global_step, steps, loopVars, modelVars, rateVars,
                   stepVars, metricVars, swapVars, saved, trace, fixedVars>>

\* The operator creates or removes the stop file.  The file is only looked at
\* by the poll, so it is enough to let it change while the loop is there.
touch_stop ==
    /\ pc = "poll"
    /\ ~stop
    /\ pauses < 1
    /\ stop' = TRUE
    /\ pauses' = pauses + 1
    /\ UNCHANGED <<pc, err, global_step, steps, loop_steps, loop_i, modelVars,
                   rateVars, stepVars, metricVars, swapVars, saved, trace,
                   fixedVars>>

remove_stop ==
    /\ stop
    /\ stop' = FALSE
    /\ UNCHANGED <<pc, err, global_step, steps, loop_steps, loop_i, pauses,
                   modelVars, rateVars, stepVars, metricVars, swapVars, saved, trace,
                   fixedVars>>

\* ------------------------------------------------------------------------
\* process (lines 1032-1128)
\* ------------------------------------------------------------------------

\* steps = self.global_step.read_value(); the test before the first step
process ==
    /\ pc = "process"
    /\ steps' = global_step
    /\ trace' = <<>>
    /\ pc' = IF pretest_due(cfg, global_step) THEN "pretest" ELSE "lr"
    /\ UNCHANGED <<err, global_step, loopVars, modelVars, rateVars, stepVars,
                   metricVars, swapVars, saved, fixedVars>>

\* calculate_test_summaries(test_batches, steps) on the weights now in the model
calculate_test_summaries ==
    /\ pc \in {"pretest", "test", "pretest_swa_eval", "test_swa_eval"}
    /\ LET n  == available_batches(cfg, test_pos, test_batches_per_pass(cfg))
           bs == next_batches(cfg.test_data, test_pos, n)
       IN  /\ test_metrics' =
                accumulate_all(metric_reset(test_metrics),
                               [k \in 1 .. n |-> LossOf(bs[k])])
           /\ thr_metrics' =
                accumulate_all(metric_reset(thr_metrics),
                               [k \in 1 .. n |-> ThrOf(bs[k])])
           /\ test_pos' = test_pos + n
           /\ IF n < test_batches_per_pass(cfg)
              THEN \* next(self.test_iter) raises StopIteration; nothing in
                   \* process or process_loop catches it
                   /\ pc' = "raised"
                   /\ err' = "StopIteration"
                   /\ trace' = trace
              ELSE /\ trace' =
                        Append(trace,
                               EventAt(IF test_writer = "swa" THEN "test_swa"
                                       ELSE "test",
                                       IF pc \in {"pretest", "pretest_swa_eval"}
                                       THEN steps + 1 ELSE steps))
                   /\ pc' = CASE pc = "pretest" ->
                                   IF cfg.swa THEN "pretest_swa_in" ELSE "lr"
                              [] pc = "test" ->
                                   IF cfg.swa THEN "test_swa_in"
                                   ELSE after_test(cfg, steps)
                              [] pc = "pretest_swa_eval" -> "pretest_swa_out"
                              [] pc = "test_swa_eval"    -> "test_swa_out"
                   /\ err' = err
    /\ UNCHANGED <<global_step, steps, loopVars, modelVars, rateVars,
                   stepVars, train_metrics, swapVars, saved, fixedVars>>

\* backup = self.read_weights(); every weight takes its SWA value; the writer
\* of the pass is replaced by the SWA writer
swa_swap_in ==
    /\ pc \in {"pretest_swa_in", "test_swa_in", "validate_swa_in", "checkpoint_swa_in"}
    /\ backup' = weights
    /\ IF swa_weights = None
       THEN \* zip(None, ...) raises TypeError
            /\ pc' = "raised"
            /\ err' = "TypeError"
            /\ UNCHANGED <<weights, test_writer, validation_writer>>
       ELSE /\ weights' = swa_weights
            /\ test_writer' =
                 IF pc \in {"pretest_swa_in", "test_swa_in"} THEN "swa"
                 ELSE test_writer
            /\ validation_writer' =
                 IF pc = "validate_swa_in" THEN "swa-validation"
                 ELSE validation_writer
            /\ pc' = CASE pc = "pretest_swa_in"    -> "pretest_swa_eval"
                       [] pc = "test_swa_in"       -> "test_swa_eval"
                       [] pc = "validate_swa_in"   -> "validate_swa_eval"
                       [] pc = "checkpoint_swa_in" -> "checkpoint_swa_eval"
            /\ err' = err
    /\ UNCHANGED <<global_step, steps, loopVars, swa_weights, swa_count, slots,
                   rateVars, stepVars, metricVars, saved, trace, fixedVars>>

\* variant of swa_restore: the writer is put back, the weights are left alone
swa_restore_writer_only ==
    /\ pc \in {"pretest_swa_out", "test_swa_out", "validate_swa_out",
               "checkpoint_swa_out"}
    /\ test_writer' =
         IF pc \in {"pretest_swa_out", "test_swa_out"} THEN "test" ELSE test_writer
    /\ validation_writer' =
         IF pc = "validate_swa_out" THEN "validation" ELSE validation_writer
    /\ backup' = None
    /\ pc' = CASE pc = "pretest_swa_out"    -> "lr"
               [] pc = "test_swa_out"       -> after_test(cfg, steps)
               [] pc = "validate_swa_out"   -> after_validate(cfg, steps)
               [] pc = "checkpoint_swa_out" -> "end"
    /\ UNCHANGED <<err, global_step, steps, loopVars, modelVars, rateVars,
                   stepVars, metricVars, saved, trace, fixedVars>>

\* the writer is put back, then every weight takes its backup value; backup is
\* a local of the swapping method and ends with it
swa_restore ==
    /\ pc \in {"pretest_swa_out", "test_swa_out", "validate_swa_out",
               "checkpoint_swa_out"}
    /\ weights' = backup
    /\ test_writer' =
         IF pc \in {"pretest_swa_out", "test_swa_out"} THEN "test" ELSE test_writer
    /\ validation_writer' =
         IF pc = "validate_swa_out" THEN "validation" ELSE validation_writer
    /\ pc' = CASE pc = "pretest_swa_out"    -> "lr"
               [] pc = "test_swa_out"       -> after_test(cfg, steps)
               [] pc = "validate_swa_out"   -> after_validate(cfg, steps)
               [] pc = "checkpoint_swa_out" -> "end"
    /\ backup' = None
    /\ UNCHANGED <<err, global_step, steps, loopVars, swa_weights, swa_count,
                   slots, rateVars, stepVars, metricVars, saved, trace,
                   fixedVars>>

\* Determine learning rate: the value of the piecewise schedule
process_lr ==
    /\ pc = "lr"
    /\ lr' = scheduled_lr(cfg, lr_boundaries, steps)
    /\ pc' = "warmup"
    /\ trace' = Append(trace, Event("lr"))
    /\ UNCHANGED <<err, global_step, steps, loopVars, modelVars, active_lr,
                   max_grad_norm, stepVars, metricVars, swapVars, saved,
                   fixedVars>>

\* the warmup scaling; then train_step starts with grads = None
process_warmup ==
    /\ pc = "warmup"
    /\ lr' = warmup_lr(cfg, lr, steps)
    /\ grads' = None
    /\ batch_id' = 0
    /\ pc' = "train"
    /\ UNCHANGED <<err, global_step, steps, loopVars, modelVars, active_lr,
                   max_grad_norm, train_pos, metricVars, swapVars, saved, trace,
                   fixedVars>>


\* variant: the step counted once per micro-batch
train_step_batch_counting ==
    /\ pc = "train"
    /\ batch_id < cfg.batch_splits
    /\ LET b  == cfg.train_data[(train_pos % Len(cfg.train_data)) + 1]
           ng == new_grads(cfg, b)
       IN  /\ grads' = IF grads = None THEN ng ELSE merge_grads(grads, ng)
           /\ train_metrics' = metric_accumulate(train_metrics, LossOf(b))
           /\ thr_metrics' = metric_accumulate(thr_metrics, ThrOf(b))
    /\ train_pos' = train_pos + 1
    /\ batch_id' = batch_id + 1
    /\ global_step' = global_step + 1
    /\ trace' = Append(trace, Event("batch"))
    /\ UNCHANGED <<pc, err, steps, loopVars, modelVars, rateVars,
                   test_metrics, test_pos, swapVars, saved, fixedVars>>

\* train_step: one micro-batch of the for loop over batch_splits
train_step_batch ==
    /\ pc = "train"
    /\ batch_id < cfg.batch_splits
    /\ train_pos' = train_pos + 1
    /\ IF scaling_methods_missing(cfg)
       THEN \* process_inner_loop: self.optimizer.get_scaled_loss(total_loss)
            /\ pc' = "raised"
            /\ err' = "AttributeError"
            /\ UNCHANGED <<grads, train_metrics, thr_metrics, batch_id, trace>>
       ELSE /\ LET b  == cfg.train_data[(train_pos % Len(cfg.train_data)) + 1]
                   ng == new_grads(cfg, b)
               IN  /\ grads' = IF grads = None THEN ng
                                ELSE merge_grads(grads, ng)
                   /\ train_metrics' = metric_accumulate(train_metrics, LossOf(b))
                   /\ thr_metrics' = metric_accumulate(thr_metrics, ThrOf(b))
            /\ batch_id' = batch_id + 1
            /\ trace' = Append(trace, Event("batch"))
            /\ UNCHANGED <<pc, err>>
    /\ UNCHANGED <<global_step, steps, loopVars, modelVars, rateVars,
                   test_metrics, test_pos, swapVars, saved, fixedVars>>

\* train_step: self.active_lr.assign(self.lr / effective_batch_splits)
train_step_lr ==
    /\ pc = "train"
    /\ batch_id = cfg.batch_splits
    /\ active_lr' = active_lr_value(lr, effective_batch_splits(cfg))
    /\ pc' = "apply"
    /\ UNCHANGED <<err, global_step, steps, loopVars, modelVars, lr,
                   max_grad_norm, stepVars, metricVars, swapVars, saved, trace,
                   fixedVars>>

\* train_step: apply_grads(grads, effective_batch_splits); the optimizer reads
\* self.active_lr
train_step_apply ==
    /\ pc = "apply"
    /\ LET r == apply_grads(cfg, weights, slots, grads, active_lr,
                            effective_batch_splits(cfg))
       IN  /\ IF applied_optimizer(cfg) = "SGD"
              THEN /\ weights' = r.weights
                   /\ slots' = r.slots
              ELSE \* the update rules of the other optimizers are not
                   \* computed: any new weights, the SGD slots are not used
                   /\ \E w \in {r.weights, InitialWeights} : weights' = w
                   /\ slots' = slots
           /\ max_grad_norm' = r.clip
    /\ pc' = "incr"
    /\ trace' = Append(trace, Event("apply"))
    /\ UNCHANGED <<err, global_step, steps, loopVars, swa_weights, swa_count,
                   lr, active_lr, stepVars, metricVars, swapVars, saved,
                   fixedVars>>

\* train_step: self.global_step.assign_add(1); steps = global_step
train_step_incr ==
    /\ pc = "incr"
    /\ global_step' = global_step + 1
    /\ steps' = global_step + 1
    /\ pc' = "report"
    /\ trace' = Append(trace, Event("incr"))
    /\ UNCHANGED <<err, loopVars, modelVars, rateVars, stepVars, metricVars,
                   swapVars, saved, fixedVars>>

\* train_step: the report of the train metrics, which resets them
train_step_report ==
    /\ pc = "report"
    /\ IF report_due(cfg, steps)
       THEN /\ train_metrics' = metric_reset(train_metrics)
            /\ thr_metrics' = metric_reset(thr_metrics)
            /\ trace' = Append(trace, Event("report"))
       ELSE UNCHANGED <<train_metrics, thr_metrics, trace>>
    /\ pc' = "swa"
    /\ UNCHANGED <<err, global_step, steps, loopVars, modelVars, rateVars,
                   stepVars, test_metrics, test_pos, swapVars, saved, fixedVars>>

\* update_swa (lines 1304-1309)
update_swa(sw, w, num, max_n) ==
    [ swa_weights |-> update_swa_weights(sw, w, num),
      swa_count   |-> swa_next_count(num, max_n) ]

\* process: if self.swa_enabled and steps % swa_steps == 0: self.update_swa()
process_swa ==
    /\ pc = "swa"
    /\ IF swa_due(cfg, steps)
       THEN LET r == update_swa(swa_weights, weights, swa_count, cfg.swa_max_n)
            IN  /\ swa_weights' = r.swa_weights
                /\ swa_count' = r.swa_count
                /\ trace' = Append(trace, Event("update_swa"))
       ELSE UNCHANGED <<swa_weights, swa_count, trace>>
    /\ pc' = after_update_swa(cfg, steps)
    /\ UNCHANGED <<err, global_step, steps, loopVars, weights, slots, rateVars,
                   stepVars, metricVars, swapVars, saved, fixedVars>>

\* calculate_test_validations(steps): every batch of the validation dataset
calculate_test_validations ==
    /\ pc \in {"validate", "validate_swa_eval"}
    /\ LET bs == cfg.validation_data
       IN  /\ test_metrics' =
                accumulate_all(metric_reset(test_metrics),
                               [k \in 1 .. Len(bs) |-> LossOf(bs[k])])
           /\ thr_metrics' =
                accumulate_all(metric_reset(thr_metrics),
                               [k \in 1 .. Len(bs) |-> ThrOf(bs[k])])
    /\ trace' = Append(trace,
                       Event(IF validation_writer = "swa-validation"
                             THEN "validate_swa" ELSE "validate"))
    /\ pc' = IF pc = "validate" THEN after_validate(cfg, steps)
             ELSE "validate_swa_out"
    /\ UNCHANGED <<err, global_step, steps, loopVars, modelVars, rateVars,
                   stepVars, train_metrics, test_pos, swapVars, saved, fixedVars>>

\* what self.checkpoint tracks
Snapshot ==
    [ model       |-> weights,
      optimizer   |-> slots,
      global_step |-> global_step,
      swa_count   |-> swa_count,
      listed      |-> swa_weights ]

\* process: self.manager.save, then the export of the live weights
process_checkpoint ==
    /\ pc = "checkpoint"
    /\ saved' = <<Snapshot>>
    /\ trace' = trace \o <<Event("save"), Event("export")>>
    /\ pc' = "checkpoint_swa_in"
    /\ UNCHANGED <<err, global_step, steps, loopVars, modelVars, rateVars,
                   stepVars, metricVars, swapVars, fixedVars>>

\* process: the export made while the SWA weights are in the model
export_swa ==
    /\ pc = "checkpoint_swa_eval"
    /\ trace' = Append(trace, Event("export_swa"))
    /\ pc' = "checkpoint_swa_out"
    /\ UNCHANGED <<err, global_step, steps, loopVars, modelVars, rateVars,
                   stepVars, metricVars, swapVars, saved, fixedVars>>

\* process returns and the for loop advances
process_return ==
    /\ pc = "end"
    /\ loop_i' = loop_i + 1
    /\ pc' = "loop"
    /\ UNCHANGED <<err, global_step, steps, loop_steps, stop, pauses, modelVars,
                   rateVars, stepVars, metricVars, swapVars, saved, trace,
                   fixedVars>>

Next ==
    \/ process_loop
    \/ loop
    \/ sleep
    \/ poll
    \/ touch_stop
    \/ remove_stop
    \/ process
    \/ calculate_test_summaries
    \/ swa_swap_in
    \/ swa_restore
    \/ process_lr
    \/ process_warmup
    \/ train_step_batch
    \/ train_step_lr
    \/ train_step_apply
    \/ train_step_incr
    \/ train_step_report
    \/ process_swa
    \/ calculate_test_validations
    \/ process_checkpoint
    \/ export_swa
    \/ process_return

Spec == Init /\ [][Next]_vars


\* ------------------------------------------------------------------------
\* properties of the training loop
\* ------------------------------------------------------------------------

\* the batch tuples the current train_step took from train_iter
ConsumedBatches ==
    [k \in 1 .. batch_id |->
        cfg.train_data[((train_pos - batch_id + k - 1) % Len(cfg.train_data)) + 1]]

\* positions of the events named in evs within the current process() call
EventsAt(evs) == {k \in DOMAIN trace : trace[k].ev \in evs}

\* in the current process() call: the gradient work precedes the increment, the
\* cadence work follows it, and a test that precedes it is the test of a step
\* that starts a run
StepOrder ==
    \A k \in EventsAt({"incr"}) :
        /\ \E j \in EventsAt({"apply"}) : j < k
        /\ \A j \in EventsAt({"lr", "batch", "apply"}) : j < k
        /\ \A j \in EventsAt({"report", "update_swa", "validate", "validate_swa",
                             "save", "export", "export_swa"}) : j > k
        /\ \A j \in EventsAt({"test", "test_swa"}) :
              j < k => trace[k].step % cfg.total_steps = 0

\* a finished process() call made exactly one increment
OneIncrement ==
    /\ Cardinality(EventsAt({"incr"})) = 1
    /\ \A k \in EventsAt({"incr"}) : global_step = trace[k].step + 1

\* C1: global_step changes only in the increment of train_step, by exactly 1,
\* after the gradients are applied and before the report, test, validation and
\* checkpoint work of the step; a process() call increments it exactly once and
\* no other operation of the loop changes it.
C1_GlobalStepMonotone ==
    [][ /\ global_step' # global_step =>
             /\ pc = "incr"
             /\ pc' = "report"
             /\ global_step' = global_step + 1
        /\ StepOrder'
        /\ pc' = "end" => OneIncrement' ]_vars

\* a process() call with SWA that tested, saved and exported has finished
C1_Witness ==
    /\ pc = "end"
    /\ cfg.swa
    /\ EventsAt({"test_swa"}) # {}
    /\ EventsAt({"export_swa"}) # {}
    /\ EventsAt({"update_swa"}) # {}

\* C2: with no stop marker present, process_loop ends by returning, after
\* exactly T - (g mod T) training steps, with global_step a multiple of T.
C2_LoopReturns ==
    (pauses = 0 /\ pc \in {"returned", "raised"}) =>
        /\ pc = "returned"
        /\ global_step - loop_steps =
              cfg.total_steps - (loop_steps % cfg.total_steps)
        /\ global_step % cfg.total_steps = 0

\* ------------------------------------------------------------------------
\* the learning-rate schedule over configured boundaries and warmup
\* ------------------------------------------------------------------------

\* lr_boundaries as written in the configuration file, in any order
BoundaryLists == [1 .. 2 -> 0 .. MaxBoundary]

LrConfigs ==
    { [BaseCfg EXCEPT !.total_steps = MaxTotalSteps,
                      !.validation = TRUE,
                      !.lr_boundaries = b,
                      !.lr_values = <<Tenth, Quarter, Eighth>>,
                      !.warmup_steps = W] :
        b \in BoundaryLists, W \in 0 .. MaxWarmup }

InitLr ==
    \E c \in LrConfigs, g \in 0 .. MaxStart :
        Constructed(c, g, InitialWeights) /\ h = None

SpecLr == InitLr /\ [][Next]_vars

\* number of configured boundaries that are <= x
BoundariesAtMost(x) ==
    Cardinality({i \in DOMAIN cfg.lr_boundaries : cfg.lr_boundaries[i] <= x})

\* the value of the piecewise schedule for the step taken at global_step
BaseLr == cfg.lr_values[BoundariesAtMost(global_step % cfg.total_steps) + 1]

\* C3: before warmup scaling the rate of the step taken at pre-increment step
\* s is lr_values[k], k the number of boundaries <= s mod total_steps (v0 below
\* the smaller boundary, v1 from it up to the larger, v2 from the larger on),
\* and k is a valid index when there is one value more than boundaries.
C3_ScheduleValue ==
    pc = "warmup" =>
        LET x  == global_step % cfg.total_steps
            k  == BoundariesAtMost(x)
            b1 == Min(cfg.lr_boundaries[1], cfg.lr_boundaries[2])
            b2 == IF b1 = cfg.lr_boundaries[1]
                  THEN cfg.lr_boundaries[2] ELSE cfg.lr_boundaries[1]
        IN  /\ Len(cfg.lr_values) = Len(cfg.lr_boundaries) + 1
            /\ k + 1 \in DOMAIN cfg.lr_values
            /\ lr = cfg.lr_values[k + 1]
            /\ x < b1 => lr = cfg.lr_values[1]
            /\ (b1 <= x /\ x < b2) => lr = cfg.lr_values[2]
            /\ x >= b2 => lr = cfg.lr_values[3]

\* boundaries configured in descending order, a step past both of them
C3_Witness ==
    /\ pc = "warmup"
    /\ cfg.lr_boundaries[1] > cfg.lr_boundaries[2]
    /\ global_step % cfg.total_steps >= cfg.lr_boundaries[1]
    /\ global_step >= cfg.total_steps
    /\ lr = cfg.lr_values[3]

\* C4: with warmup_steps = W > 0 the rate of the step taken at global step
\* s < W is base_lr * (s + 1) / W; for s >= W, continuation runs included, the
\* rate is base_lr unscaled; the factor (s + 1) / W is exactly 1 at s = W - 1.
C4_Warmup ==
    pc = "train" =>
        LET s == global_step
            W == cfg.warmup_steps
        IN  IF W > 0 /\ s < W
            THEN /\ lr = FDiv(FMul(BaseLr, FromInt(s + 1)), FromInt(W))
                 /\ s = W - 1 => FDiv(FromInt(s + 1), FromInt(W)) = One
            ELSE lr = BaseLr

\* a continuation run still inside the warmup, its rate scaled down
C4_Witness ==
    /\ pc = "train"
    /\ global_step >= cfg.total_steps
    /\ global_step < cfg.warmup_steps - 1
    /\ FLt(lr, BaseLr)

\* ------------------------------------------------------------------------
\* properties of the gradient pipeline
\* ------------------------------------------------------------------------

\* per replica, the sum of the gradients of the consumed micro-batches
SummedGrads ==
    [r \in 1 .. ReplicaCount(cfg) |->
        [i \in WeightIdx |->
            SumOver([k \in 1 .. batch_id |-> GradOf(ConsumedBatches[k], r, i)],
                    batch_id)]]

\* C5: a training step consumes exactly batch_splits batch tuples and sums
\* their gradients per parameter; the rate given to the optimizer is the
\* scheduled rate divided by batch_splits x replicas (by batch_splits alone
\* without a strategy), and it is set before apply_gradients runs.
C5_SummedSplits ==
    pc \in {"apply", "incr"} =>
        /\ batch_id = cfg.batch_splits
        /\ Cardinality(EventsAt({"batch"})) = cfg.batch_splits
        /\ grads = SummedGrads
        /\ active_lr =
             FDiv(lr, FromInt(cfg.batch_splits *
                              (IF cfg.replicas = 0 THEN 1 ELSE cfg.replicas)))
        /\ pc = "apply" => EventsAt({"apply"}) = {}

\* two different micro-batches summed on two replicas
C5_Witness ==
    /\ pc = "incr"
    /\ cfg.batch_splits = 2
    /\ cfg.replicas = 2
    /\ ConsumedBatches[1] # ConsumedBatches[2]

\* the train_step in progress has two micro-batches with the same gradients
IdenticalSplits ==
    /\ cfg.batch_splits = 2
    /\ batch_id = 2
    /\ ConsumedBatches[1] = ConsumedBatches[2]

\* the same configuration with one batch split
OneSplit == [cfg EXCEPT !.batch_splits = 1]

\* C6: a step of 2 batch splits with identical micro-batch gradients leaves
\* the weights and the optimizer state that a step of 1 split with that
\* gradient leaves from the same state, with clipping inactive and active.
C6_SplitEquivalence ==
    [][ (pc = "apply" /\ pc' = "incr" /\ IdenticalSplits) =>
            LET ebs1 == effective_batch_splits(OneSplit)
                one  == apply_grads(OneSplit, weights, slots,
                                    new_grads(OneSplit, ConsumedBatches[1]),
                                    active_lr_value(lr, ebs1), ebs1)
            IN  /\ weights' = one.weights
                /\ slots' = one.slots ]_vars

\* identical micro-batches whose summed gradient was clipped
C6_Witness ==
    /\ pc = "incr"
    /\ IdenticalSplits
    /\ FLt(max_grad_norm, global_norm(gradient_aggregator(grads)))
    /\ weights # trace[1].w

\* the max_grad_norm of the configuration, 10000 when it sets none
ConfiguredMaxGradNorm ==
    IF cfg.has_max_grad_norm THEN cfg.max_grad_norm ELSE FromInt(10000)

\* C7 (as stated): the clipping threshold is max_grad_norm x batch_splits in
\* single-device and multi-replica runs alike.
C7_ThresholdBySplits ==
    pc = "incr" =>
        max_grad_norm = FMul(ConfiguredMaxGradNorm, FromInt(cfg.batch_splits))

\* C7 (amended): the clipping threshold is max_grad_norm x batch_splits
\* without a distribution strategy and max_grad_norm x batch_splits x
\* num_replicas_in_sync with one.
C7_ThresholdByEffectiveSplits ==
    pc = "incr" =>
        max_grad_norm =
            FMul(ConfiguredMaxGradNorm,
                 FromInt(IF cfg.replicas = 0 THEN cfg.batch_splits
                         ELSE cfg.batch_splits * cfg.replicas))

\* the default threshold on two replicas with two splits
C7_Witness ==
    /\ pc = "incr"
    /\ cfg.replicas = 2
    /\ cfg.batch_splits = 2
    /\ ~cfg.has_max_grad_norm
    /\ max_grad_norm = FromInt(40000)

\* ------------------------------------------------------------------------
\* update_swa and replace_weights called on a constructed TFProcess
\* ------------------------------------------------------------------------

ConstVec(v) == [i \in WeightIdx |-> v]

\* weight vectors the model can hold
WeightChoices == {ConstVec(Tenth), InitialWeights}

\* the weights of a network file, by tensor
ProtoValues == [i \in WeightIdx |-> FromInt(10 + i)]

\* a parsed network file: whether its head formats match the model and, per
\* tensor, whether its values are there and have the right length
ProtoKinds ==
    {[i \in WeightIdx |-> "ok"]} \cup
    {[i \in WeightIdx |-> IF i = j THEN f ELSE "ok"] :
        j \in WeightIdx, f \in {"missing", "wrong_length"}}

Protos ==
    {[format_ok |-> TRUE, kind |-> k, value |-> ProtoValues] : k \in ProtoKinds}
    \cup {[format_ok |-> FALSE, kind |-> k, value |-> ProtoValues] :
            k \in {[i \in WeightIdx |-> "ok"],
                   [i \in WeightIdx |-> IF i = 1 THEN "missing" ELSE "ok"]}}

\* replace_weights, the loop over self.model.weights from weight i on
RECURSIVE replace_loop(_, _, _, _)
replace_loop(w, proto, ignore_errors, i) ==
    IF i > Len(w) THEN [weights |-> w, err |-> "none"]
    ELSE IF proto.kind[i] = "ok"
    THEN replace_loop([w EXCEPT ![i] = proto.value[i]], proto, ignore_errors, i + 1)
    ELSE IF ignore_errors
    THEN replace_loop(w, proto, ignore_errors, i + 1)
    ELSE [weights |-> w, err |-> "KeyError"]

\* variant: the head formats of the file are not compared with the model's
replace_weights_any_format(w, proto, ignore_errors) ==
    replace_loop(w, proto, ignore_errors, 1)

\* replace_weights up to the SWA reset: the live weights and the error raised
replace_weights(w, proto, ignore_errors) ==
    IF ~ignore_errors /\ ~proto.format_ok
    THEN [weights |-> w, err |-> "ValueError"]
    ELSE replace_loop(w, proto, ignore_errors, 1)

\* the end of replace_weights without the reset of swa_count
replace_swa_no_reset(sw, w, num, max_n) == update_swa(sw, w, num, max_n)

\* self.swa_count.assign(tf.constant(0.)); self.update_swa()
replace_swa(sw, w, num, max_n) == update_swa(sw, w, 0, max_n)

\* what h holds of the last replace_weights when the last call was another one
NoReplace ==
    [ before |-> [swa_count |-> 0, swa_weights |-> ZeroSlots, weights |-> ZeroSlots],
      proto  |-> [format_ok |-> TRUE,
                  kind      |-> [i \in WeightIdx |-> "ok"],
                  value     |-> ProtoValues] ]

\* a caller runs update_swa()
call_update_swa ==
    /\ pc = "init"
    /\ h.ops < MaxOps
    /\ LET r == update_swa(swa_weights, weights, swa_count, cfg.swa_max_n)
       IN  /\ swa_weights' = r.swa_weights
           /\ swa_count' = r.swa_count
    /\ h' = [h EXCEPT !.ops = @ + 1, !.k = @ + 1, !.last_op = "update_swa",
                      !.last_n = swa_count, !.before = NoReplace.before,
                      !.proto = NoReplace.proto, !.ignore_errors = FALSE]
    /\ UNCHANGED <<cfg, lr_boundaries, pc, err, global_step, steps, loopVars,
                   weights, slots, rateVars, stepVars, metricVars, swapVars,
                   saved, trace>>

\* the optimizer changes the live weights
apply_gradients ==
    /\ pc = "init"
    /\ h.ops < MaxOps
    /\ \E w \in WeightChoices :
          /\ w # weights
          /\ weights' = w
    /\ h' = [h EXCEPT !.ops = @ + 1, !.const = FALSE,
                      !.last_op = "apply_gradients",
                      !.before = NoReplace.before, !.proto = NoReplace.proto,
                      !.ignore_errors = FALSE]
    /\ UNCHANGED <<cfg, lr_boundaries, pc, err, global_step, steps, loopVars,
                   swa_weights, swa_count, slots, rateVars, stepVars, metricVars,
                   swapVars, saved, trace>>

\* a caller runs replace_weights(proto_filename, ignore_errors)
call_replace_weights ==
    /\ pc = "init"
    /\ h.ops < MaxOps
    /\ \E proto \in Protos, ignore_errors \in BOOLEAN :
          LET r  == replace_weights(weights, proto, ignore_errors)
              sw == replace_swa(swa_weights, r.weights, swa_count, cfg.swa_max_n)
              ok == r.err = "none"
          IN  /\ weights' = r.weights
              /\ err' = r.err
              /\ pc' = IF ok THEN pc ELSE "raised"
              /\ swa_weights' = IF ok /\ cfg.swa THEN sw.swa_weights ELSE swa_weights
              /\ swa_count' = IF ok /\ cfg.swa THEN sw.swa_count ELSE swa_count
              /\ h' = [h EXCEPT !.ops = @ + 1,
                                !.k = IF ok THEN @ + 1 ELSE @,
                                !.const = FALSE,
                                !.last_op = "replace_weights",
                                !.last_n = IF ok THEN 0 ELSE @,
                                !.before = [swa_count   |-> swa_count,
                                            swa_weights |-> swa_weights,
                                            weights     |-> weights],
                                !.proto = proto,
                                !.ignore_errors = ignore_errors]
    /\ UNCHANGED <<cfg, lr_boundaries, global_step, steps, loopVars, slots,
                   rateVars, stepVars, metricVars, swapVars, saved, trace>>

SwaConfigs == {[BaseCfg EXCEPT !.swa = TRUE, !.swa_max_n = n] : n \in 0 .. MaxSwaN}

\* h: the calls made so far (ops), the update_swa runs among them (k), whether
\* every live weight has had the value c since construction (const), the last
\* call, the count its update_swa read, and the state, file and ignore_errors
\* argument of the last replace_weights
InitSwa ==
    \E c \in SwaConfigs, w0 \in WeightChoices :
        /\ Constructed(c, 0, w0)
        /\ h = [ ops     |-> 0,
                 k       |-> 0,
                 const   |-> (w0 = ConstVec(w0[1])),
                 c       |-> w0[1],
                 last_op |-> "init",
                 last_n  |-> 0,
                 before  |-> NoReplace.before,
                 proto   |-> NoReplace.proto,
                 ignore_errors |-> FALSE ]

NextSwa ==
    \/ call_update_swa
    \/ apply_gradients
    \/ call_replace_weights

SpecSwa == InitSwa /\ [][NextSwa]_vars

\* C8 (as stated): when every live weight has had the value c from
\* construction through k >= 1 runs of update_swa, every SWA weight is c
\* exactly, for every swa_max_n.
C8_FixedPointExact ==
    (h.const /\ h.k >= 1) => swa_weights = ConstVec(h.c)

\* C8 (amended): under the same premise every SWA weight is c exactly when
\* the last update_swa read swa_count = 0, and with swa_max_n = 0 (the
\* default) every update_swa reads 0.
C8_FixedPointAtZeroCount ==
    (h.const /\ h.k >= 1) =>
        /\ cfg.swa_max_n = 0 => h.last_n = 0
        /\ h.last_n = 0 => swa_weights = ConstVec(h.c)

\* three updates of constant weights under the default swa_max_n
C8_Witness ==
    /\ h.const
    /\ h.k >= 3
    /\ cfg.swa_max_n = 0
    /\ weights = ConstVec(Tenth)
    /\ swa_weights = weights

\* C9: update_swa sets every SWA weight to swa*(n/(n+1)) + w*(1/(n+1)) with n
\* the count read before the update, then the count to min(n+1, swa_max_n);
\* 0 <= swa_count <= swa_max_n always; at n = swa_max_n the count, and with it
\* the momentum n/(n+1) = 1 - 1/(swa_max_n+1), stays; no live weight changes.
C9_UpdateRule ==
    [][ /\ (h'.ops = h.ops + 1 /\ h'.last_op = "update_swa") =>
             LET n == swa_count
             IN  /\ swa_weights' =
                      [i \in WeightIdx |->
                          FAdd(FMul(swa_weights[i],
                                    FDiv(FromInt(n), FromInt(n + 1))),
                               FMul(weights[i], FDiv(One, FromInt(n + 1))))]
                 /\ swa_count' = IF n + 1 < cfg.swa_max_n THEN n + 1
                                 ELSE cfg.swa_max_n
                 /\ n = cfg.swa_max_n => swa_count' = n
                 /\ weights' = weights
        /\ 0 <= swa_count'
        /\ swa_count' <= cfg.swa_max_n ]_vars

\* an update at the cap that moved the average towards different live weights
C9_Witness ==
    /\ h.last_op = "update_swa"
    /\ cfg.swa_max_n >= 1
    /\ h.last_n = cfg.swa_max_n
    /\ swa_count = cfg.swa_max_n
    /\ \A i \in WeightIdx : swa_weights[i] # weights[i]

\* C10: after replace_weights returns normally with SWA enabled every SWA
\* weight equals the live weight now in the model (the loaded one for every
\* tensor the file gave), whatever swa_count and the SWA weights were before.
C10_ReplaceResetsSwa ==
    (h.last_op = "replace_weights" /\ err = "none" /\ cfg.swa) =>
        /\ \A i \in WeightIdx :
              /\ swa_weights[i] = weights[i]
              /\ h.proto.kind[i] = "ok" => weights[i] = h.proto.value[i]
              /\ h.proto.kind[i] # "ok" => weights[i] = h.before.weights[i]
        /\ swa_count = Min(1, cfg.swa_max_n)

\* a full replacement made when the average held two samples of other weights
C10_Witness ==
    /\ h.last_op = "replace_weights"
    /\ err = "none"
    /\ h.before.swa_count >= 2
    /\ \A i \in WeightIdx :
          /\ h.proto.kind[i] = "ok"
          /\ h.before.swa_weights[i] # h.before.weights[i]
          /\ swa_weights[i] = h.proto.value[i]

\* ---------------------------------------------------------------------------
\* Swap, evaluate, restore (calculate_swa_summaries, calculate_swa_validations,
\* the SWA export of a checkpoint)

\* the SWA weights are about to be copied into the model
SwapIn   == {"pretest_swa_in", "test_swa_in", "validate_swa_in",
             "checkpoint_swa_in"}
\* the model holds the SWA weights and the evaluation or export has not run
SwapEval == {"pretest_swa_eval", "test_swa_eval", "validate_swa_eval",
             "checkpoint_swa_eval"}
\* the evaluation or export has run and the backup has not been written back
SwapOut  == {"pretest_swa_out", "test_swa_out", "validate_swa_out",
             "checkpoint_swa_out"}

\* C11: between the swap-in and the restore no gradient step and no update_swa
\* runs (optimizer slots, SWA weights, SWA count, global step and the position
\* in the training data do not change, and the live weights stay the SWA
\* weights), and when the operation returns every live weight has the value it
\* had before the swap and both writers are the original ones.
C11_SwapAtomic ==
    [][ /\ (pc \in SwapIn /\ pc' \in SwapEval) =>
             (backup' = weights /\ weights' = swa_weights)
        /\ (pc \in SwapEval \cup SwapOut) =>
             /\ slots' = slots
             /\ swa_weights' = swa_weights
             /\ swa_count' = swa_count
             /\ global_step' = global_step
             /\ train_pos' = train_pos
             /\ train_metrics' = train_metrics
        /\ (pc \in SwapEval) => (backup' = backup /\ weights' = weights)
        /\ (pc \in SwapOut) =>
             /\ weights' = backup
             /\ test_writer' = "test"
             /\ validation_writer' = "validation"
             /\ pc' \notin SwapEval \cup SwapOut \cup {"raised"}
      ]_vars

\* a checkpoint's SWA export has returned: the exported weights were not the
\* live ones, and the live ones are back
C11_Witness ==
    /\ pc = "end"
    /\ trace # <<>>
    /\ trace[Len(trace)].ev = "export_swa"
    /\ trace[Len(trace)].w # weights
    /\ trace[Len(trace)].w = swa_weights
    /\ test_writer = "test"

\* C12: the swap is undone on every exit path: when process() is left by an
\* exception raised while the SWA weights are in the model, the live weights
\* are again the ones saved at the swap-in and both writers are the original
\* ones.
C12_RestoredOnException ==
    (pc = "raised" /\ backup # None) =>
        /\ weights = backup
        /\ test_writer = "test"
        /\ validation_writer = "validation"

\* the evaluation of the SWA weights has raised and the weights in the model
\* are not the ones saved at the swap-in
C12_LeftSwapped ==
    /\ pc = "raised"
    /\ err = "StopIteration"
    /\ backup # None
    /\ weights # backup
    /\ weights = swa_weights
    /\ test_writer = "swa"

\* ---------------------------------------------------------------------------
\* Metric: calls of assign, accumulate, merge and reset on two Metric objects
\* of the same short name (the "P" entries of train_metrics and test_metrics)

\* values handed to assign and accumulate
MetricValues == {-1, 2}

MetricNames == {"train", "test"}

\* what has gone into a Metric since it was constructed, reset or assigned
NoInputs == [sum |-> 0, n |-> 0]

metric_of(x) == IF x = "train" THEN train_metrics ELSE test_metrics

\* the Metric x becomes m, the other one is left alone
metric_becomes(x, m) ==
    /\ train_metrics' = IF x = "train" THEN m ELSE train_metrics
    /\ test_metrics'  = IF x = "test" THEN m ELSE test_metrics
    /\ UNCHANGED <<cfg, lr_boundaries, pc, err, global_step, steps, loopVars,
                   modelVars, rateVars, stepVars, thr_metrics, test_pos,
                   swapVars, saved, trace>>

call_assign ==
    /\ h.ops < MaxOps
    /\ \E x \in MetricNames, v \in MetricValues :
          /\ metric_becomes(x, metric_assign(v))
          /\ h' = [h EXCEPT !.ops = @ + 1,
                            !.inputs[x] = [sum |-> v, n |-> 1]]

call_accumulate ==
    /\ h.ops < MaxOps
    /\ \E x \in MetricNames, v \in MetricValues :
          /\ metric_becomes(x, metric_accumulate(metric_of(x), v))
          /\ h' = [h EXCEPT !.ops = @ + 1,
                            !.inputs[x] = [sum |-> @.sum + v, n |-> @.n + 1]]

call_merge ==
    /\ h.ops < MaxOps
    /\ \E x \in MetricNames, y \in MetricNames :
          /\ metric_becomes(x, metric_merge(metric_of(x), metric_of(y)))
          /\ h' = [h EXCEPT !.ops = @ + 1,
                            !.inputs[x] = [sum |-> @.sum + h.inputs[y].sum,
                                           n   |-> @.n + h.inputs[y].n]]

call_reset ==
    /\ h.ops < MaxOps
    /\ \E x \in MetricNames :
          /\ metric_becomes(x, metric_reset(metric_of(x)))
          /\ h' = [h EXCEPT !.ops = @ + 1, !.inputs[x] = NoInputs]

InitMetric ==
    /\ Constructed(BaseCfg, 0, InitialWeights)
    /\ h = [ops |-> 0, inputs |-> [x \in MetricNames |-> NoInputs]]

NextMetric ==
    \/ call_assign
    \/ call_accumulate
    \/ call_merge
    \/ call_reset

SpecMetric == InitMetric /\ [][NextMetric]_vars

\* C13: after any sequence of assign, accumulate, merge and reset, a Metric's
\* count is the number of values that went into it, get() is their sum divided
\* by the count when the count is positive and 0 when the count is 0, and a
\* count of 0 goes with a stored value of 0.
C13_MetricGet ==
    \A x \in MetricNames :
        LET m == metric_of(x)
            i == h.inputs[x]
        IN  /\ m.count = i.n
            /\ m.count > 0 => metric_get(m) = [num |-> i.sum, den |-> i.n]
            /\ m.count = 0 => (metric_get(m).num = 0 /\ m.value = 0)

\* after MaxOps calls one Metric is empty and the other holds the sum of
\* several values, not 0
C13_Witness ==
    /\ h.ops = MaxOps
    /\ train_metrics.count = 0
    /\ test_metrics.count > 1
    /\ test_metrics.value # 0

\* ---------------------------------------------------------------------------
\* Train metrics between two reports

\* largest element of a non-empty set of integers
Max(S) == CHOOSE x \in S : \A y \in S : y <= x

\* training steps made since the previous train report of this process_loop
\* call, or since the call started
StepsSinceReport ==
    steps - Max({loop_steps} \cup
                { r \in (loop_steps + 1) .. (steps - 1) : report_due(cfg, r) })

\* the step's train report is about to be made / has just been made
AtReport    == pc = "report" /\ report_due(cfg, steps)
AfterReport == pc = "swa" /\ report_due(cfg, steps)

\* the metrics that are in train_metrics alone
PlainTrainCounts ==
    /\ AtReport => train_metrics.count = cfg.batch_splits * StepsSinceReport
    /\ AfterReport => train_metrics.count = 0

\* C14: at every train report every train metric, the thresholded policy
\* accuracies included, has a count of batch_splits times the number of training
\* steps since the previous report (or since the loop started), and a count of 0
\* right after the report.
C14_TrainMetricCounts ==
    /\ PlainTrainCounts
    /\ AtReport => thr_metrics.count = cfg.batch_splits * StepsSinceReport
    /\ AfterReport => thr_metrics.count = 0

\* a train report at which a thresholded accuracy carries the values of a test
\* pass besides those of the training steps
C14_TestValuesInTrainReport ==
    /\ AtReport
    /\ train_metrics.count = cfg.batch_splits * StepsSinceReport
    /\ thr_metrics.count > train_metrics.count

\* ---------------------------------------------------------------------------
\* The test pass before the first step

\* the part of process() that precedes the learning-rate lookup
PretestPcs == {"pretest", "pretest_swa_in", "pretest_swa_eval", "pretest_swa_out"}

\* this process_loop call started on a multiple of total_steps and has made no
\* gradient step yet
AtRunStart == global_step = loop_steps /\ loop_steps % cfg.total_steps = 0

\* C15: a test pass that precedes the gradient step of a process() call runs
\* exactly when the process_loop call started at a global step that is 0 modulo
\* total_steps and no gradient step has been made yet, hence at most once per
\* process_loop call (once more on the SWA weights when SWA is enabled), and it
\* leaves the global step, the live weights and the optimizer slots as they
\* were at the start.
C15_PretestOnce ==
    /\ pc \in PretestPcs => (AtRunStart /\ steps = loop_steps /\ loop_i = 0)
    /\ pc = "lr" =>
          /\ Cardinality(EventsAt({"test"})) = IF AtRunStart THEN 1 ELSE 0
          /\ Cardinality(EventsAt({"test_swa"})) =
                IF AtRunStart /\ cfg.swa THEN 1 ELSE 0
          /\ AtRunStart =>
                /\ weights = InitialWeights
                /\ slots = ZeroSlots
                /\ \A k \in DOMAIN trace :
                      trace[k].step = loop_steps + 1 /\ trace[k].w = InitialWeights

\* the test passes before the first step are over, on the live and on the SWA
\* weights, and the first gradient step is about to start
C15_Witness ==
    /\ pc = "lr"
    /\ AtRunStart
    /\ loop_steps > 0
    /\ Cardinality(EventsAt({"test"})) = 1
    /\ Cardinality(EventsAt({"test_swa"})) = 1
    /\ test_pos = 2 * test_batches_per_pass(cfg)

\* ---------------------------------------------------------------------------
\* The work that follows the gradient step of a process() call

\* sum of the loss values of a sequence of batches
RECURSIVE SumLoss(_)
SumLoss(bs) == IF bs = <<>> THEN 0 ELSE LossOf(Head(bs)) + SumLoss(Tail(bs))

\* process() is past its test passes
TestPhaseOver ==
    pc \in {"validate", "validate_swa_in", "validate_swa_eval", "validate_swa_out",
            "checkpoint", "checkpoint_swa_in", "checkpoint_swa_eval",
            "checkpoint_swa_out", "end"}

\* positions in the trace of the events named in evs that follow the increment
\* of the global step
AfterIncr(evs) ==
    {k \in EventsAt(evs) : \E i \in EventsAt({"incr"}) : i < k}

\* micro-batches one test pass is to take
BatchesPerPass ==
    IF cfg.swa THEN cfg.test_batches \div 2 ELSE cfg.test_batches

\* C16: after the step that brings the global step to s, a test pass on the
\* live weights runs exactly when s mod test_steps = 0 or s mod total_steps = 0,
\* tagged s; with SWA enabled one pass on the SWA weights follows it in the same
\* step; and each pass that completes takes test_batches micro-batches
\* (test_batches div 2 with SWA) from the test iterator and leaves in the test
\* metrics the values of those micro-batches alone.
C16_TestCadence ==
    /\ [](TestPhaseOver =>
           LET due  == steps % cfg.test_steps = 0 \/ steps % cfg.total_steps = 0
               live == AfterIncr({"test"})
               swa  == AfterIncr({"test_swa"})
           IN  /\ Cardinality(live) = IF due THEN 1 ELSE 0
               /\ Cardinality(swa) = IF due /\ cfg.swa THEN 1 ELSE 0
               /\ \A k \in live :
                     /\ trace[k].step = steps
                     /\ \A i \in EventsAt({"incr"}) : trace[k].w = trace[i].w
               /\ \A k \in swa :
                     /\ trace[k].step = steps
                     /\ trace[k].w = swa_weights
                     /\ \E j \in live : j < k)
    /\ [][(pc \in {"pretest", "test", "pretest_swa_eval", "test_swa_eval"}
           /\ pc' # "raised") =>
             /\ test_pos' = test_pos + BatchesPerPass
             /\ test_metrics'.count = BatchesPerPass
             /\ test_metrics'.value =
                  SumLoss(next_batches(cfg.test_data, test_pos, BatchesPerPass))
        ]_vars

\* a step not on the test_steps cadence that ends a run: both passes have run,
\* the SWA pass on weights that are not the live ones, and its values alone are
\* in the test metrics
C16_Witness ==
    /\ pc = "end"
    /\ steps % cfg.test_steps # 0
    /\ Cardinality(AfterIncr({"test"})) = 1
    /\ Cardinality(AfterIncr({"test_swa"})) = 1
    /\ swa_weights # weights
    /\ test_metrics.count = 1
    /\ test_pos > 2

\* process() is past its validation pass
ValidationPhaseOver ==
    pc \in {"checkpoint", "checkpoint_swa_in", "checkpoint_swa_eval",
            "checkpoint_swa_out", "end"}

\* C17: when a validation dataset is configured and s mod validation_steps = 0
\* or s mod total_steps = 0, the live weights are evaluated on the validation
\* set in the step that reaches s, over every batch of the set, and with SWA
\* enabled the SWA weights are evaluated as well as the live ones.
C17_ValidationCadence ==
    /\ (/\ ValidationPhaseOver
        /\ cfg.validation
        /\ (steps % cfg.validation_steps = 0 \/ steps % cfg.total_steps = 0)) =>
          /\ \E k \in AfterIncr({"validate"}) :
                /\ trace[k].step = steps
                /\ \A i \in EventsAt({"incr"}) : trace[k].w = trace[i].w
          /\ cfg.swa => \E k \in AfterIncr({"validate_swa"}) :
                           trace[k].step = steps /\ trace[k].w = swa_weights
    /\ pc = "validate_swa_out" => test_metrics.count = Len(cfg.validation_data)

\* a due validation is over and only the SWA weights have been evaluated
C17_SwaOnly ==
    /\ ValidationPhaseOver
    /\ cfg.validation /\ cfg.swa
    /\ AfterIncr({"validate_swa"}) # {}
    /\ AfterIncr({"validate"}) = {}
    /\ swa_weights # weights

\* without SWA the due validation pass is made on the live weights
ValidationWithoutSwa == cfg.swa \/ C17_ValidationCadence

\* the checkpoint part of process() is over: process() has returned, or has
\* been left by the TypeError of the checkpoint branch
CheckpointPhaseOver == pc = "end" \/ (pc = "raised" /\ err = "TypeError")

\* C18: in the step that reaches s a checkpoint is saved exactly when
\* s mod total_steps = 0, or checkpoint_steps is configured and
\* s mod checkpoint_steps = 0; the checkpoint is written first, then the live
\* snapshot is exported, then the SWA snapshot under its own tag, all for step
\* s; and after the step the live weights are the ones the training step
\* produced.
C18_CheckpointCadence ==
    CheckpointPhaseOver =>
       LET due == \/ steps % cfg.total_steps = 0
                  \/ cfg.has_checkpoint_steps /\ steps % cfg.checkpoint_steps = 0
       IN  /\ Cardinality(EventsAt({"save"})) = IF due THEN 1 ELSE 0
           /\ Cardinality(EventsAt({"export"})) = IF due THEN 1 ELSE 0
           /\ Cardinality(EventsAt({"export_swa"})) = IF due THEN 1 ELSE 0
           /\ due =>
                /\ saved # None
                /\ saved[1].global_step = steps
                /\ \A i \in EventsAt({"incr"}) : saved[1].model = trace[i].w
                /\ \A k \in EventsAt({"save", "export", "export_swa"}) :
                      trace[k].step = steps
                /\ \A a \in EventsAt({"save"}), b \in EventsAt({"export"}),
                      c \in EventsAt({"export_swa"}) : a < b /\ b < c
           /\ \A i \in EventsAt({"incr"}) : weights = trace[i].w

\* with SWA enabled the checkpoint branch runs as C18 says
CheckpointWithSwa == ~cfg.swa \/ C18_CheckpointCadence

\* the checkpoint and the live snapshot are written and the SWA snapshot is not
C18_NoSwaExport ==
    /\ pc = "raised"
    /\ err = "TypeError"
    /\ EventsAt({"save"}) # {}
    /\ EventsAt({"export"}) # {}
    /\ EventsAt({"export_swa"}) = {}

\* ---------------------------------------------------------------------------
\* The optimizer objects of init_net, and the one the checkpoint tracks

OptConfigs ==
    { [BaseCfg EXCEPT !.loss_scale = ls,
                      !.rmsprop_optimizer = rms,
                      !.nadam_optimizer = nadam,
                      !.weight_decay = wd,
                      !.lookahead_optimizer = la] :
        ls \in {1, 128}, rms \in BOOLEAN, nadam \in BOOLEAN, wd \in {0, 1},
        la \in BOOLEAN }

\* h.iterations[o]: the apply_gradients calls object o has taken part in, which
\* stands for its state (iteration count and slot variables)
InitOpt ==
    \E c \in OptConfigs :
        /\ Constructed(c, 0, InitialWeights)
        /\ h = [ ops        |-> 0,
                 last_op    |-> "init",
                 iterations |-> [o \in OptimizerObjects |-> 0],
                 at_save    |-> None,
                 before     |-> None ]

\* apply_grads: self.optimizer.get_unscaled_gradients when loss_scale != 1,
\* then self.optimizer.apply_gradients, which runs every object of the chain
optimizer_apply_gradients ==
    /\ pc = "init"
    /\ h.ops < MaxOps
    /\ LET chain == optimizer(cfg)
       IN  IF cfg.loss_scale # 1 /\ chain[1] # "LossScaleOptimizer"
           THEN \* the object has no get_unscaled_gradients
                /\ pc' = "raised"
                /\ err' = "AttributeError"
                /\ h' = [h EXCEPT !.ops = @ + 1, !.last_op = "apply_gradients"]
                /\ UNCHANGED weights
           ELSE /\ \E w \in WeightChoices : weights' = w
                /\ h' = [h EXCEPT !.ops = @ + 1,
                                  !.last_op = "apply_gradients",
                                  !.iterations =
                                     [o \in OptimizerObjects |->
                                        IF \E k \in DOMAIN chain : chain[k] = o
                                        THEN @[o] + 1 ELSE @[o]]]
                /\ UNCHANGED <<pc, err>>
    /\ UNCHANGED <<cfg, lr_boundaries, global_step, steps, loopVars, swa_weights,
                   swa_count, slots, rateVars, stepVars, metricVars, swapVars,
                   saved, trace>>

\* the weights, step and SWA state a checkpoint is to bring back
Tracked ==
    [ weights     |-> weights,
      global_step |-> global_step,
      swa_count   |-> swa_count,
      swa_weights |-> swa_weights ]

\* self.manager.save: the optimizer of the snapshot is the state of the object
\* given to tf.train.Checkpoint
call_manager_save ==
    /\ pc = "init"
    /\ h.ops < MaxOps
    /\ saved' = <<[Snapshot EXCEPT !.optimizer = h.iterations[orig_optimizer(cfg)]]>>
    /\ h' = [h EXCEPT !.ops = @ + 1, !.last_op = "save",
                      !.at_save = Tracked, !.before = Tracked]
    /\ UNCHANGED <<cfg, lr_boundaries, pc, err, global_step, steps, loopVars,
                   modelVars, rateVars, stepVars, metricVars, swapVars, trace>>

NextOpt ==
    \/ optimizer_apply_gradients
    \/ call_manager_save

SpecOpt == InitOpt /\ [][NextOpt]_vars

\* C19: for every optimizer configuration the optimizer state a checkpoint
\* holds is the state of the optimizer whose update rule apply_gradients runs
\* on the weights.
C19_TrackedOptimizer ==
    h.last_op = "save" =>
        saved[1].optimizer = h.iterations[applied_optimizer(cfg)]

\* a checkpoint written after two RMSprop updates holds an optimizer that has
\* made none
C19_UntrackedState ==
    /\ h.last_op = "save"
    /\ optimizer(cfg) = <<"RMSprop">>
    /\ h.iterations["RMSprop"] = 2
    /\ saved[1].optimizer = 0
    /\ err = "none"

\* with the default optimizer, and with the optimizers that wrap it, the
\* checkpoint holds the state of the SGD object that updates the weights
TrackedWhenSgd ==
    (~cfg.rmsprop_optimizer /\ ~cfg.nadam_optimizer) => C19_TrackedOptimizer

\* ---------------------------------------------------------------------------
\* Checkpoint round trip: manager.save, changes of the tracked variables,
\* restore()

CkptConfigs == {[BaseCfg EXCEPT !.swa = sw, !.swa_max_n = MaxSwaN] : sw \in BOOLEAN}

\* h.at_save: the tracked values when manager.save last ran (None before the
\* first save); h.before: the tracked values before the last call
InitCkpt ==
    \E c \in CkptConfigs :
        /\ Constructed(c, 0, InitialWeights)
        /\ h = [ ops        |-> 0,
                 last_op    |-> "init",
                 iterations |-> [o \in OptimizerObjects |-> 0],
                 at_save    |-> None,
                 before     |-> None ]

\* training steps, update_swa and replace_weights between a save and a restore:
\* any new values of the tracked variables and of the optimizer state
mutate ==
    /\ pc = "init"
    /\ h.ops < MaxOps
    /\ \E w \in WeightChoices, sw \in WeightChoices,
          g \in {global_step, global_step + 1}, n \in {swa_count, MaxSwaN} :
          /\ weights' = w
          /\ global_step' = g
          /\ swa_weights' = IF cfg.swa THEN sw ELSE swa_weights
          /\ swa_count' = IF cfg.swa THEN n ELSE swa_count
    /\ h' = [h EXCEPT !.ops = @ + 1, !.last_op = "mutate",
                      !.iterations[orig_optimizer(cfg)] = @ + 1,
                      !.before = Tracked]
    /\ UNCHANGED <<cfg, lr_boundaries, pc, err, steps, loopVars, slots, rateVars,
                   stepVars, metricVars, swapVars, saved, trace>>

\* variant of restore: the list attached as checkpoint.listed is not restored
restore_without_listed ==
    /\ pc = "init"
    /\ h.ops < MaxOps
    /\ IF saved = None
       THEN /\ UNCHANGED <<weights, global_step, swa_count>>
            /\ h' = [h EXCEPT !.ops = @ + 1, !.last_op = "restore",
                              !.before = Tracked]
       ELSE /\ weights' = saved[1].model
            /\ global_step' = saved[1].global_step
            /\ swa_count' = saved[1].swa_count
            /\ h' = [h EXCEPT !.ops = @ + 1, !.last_op = "restore",
                              !.iterations[orig_optimizer(cfg)] =
                                  saved[1].optimizer,
                              !.before = Tracked]
    /\ UNCHANGED <<cfg, lr_boundaries, pc, err, steps, loopVars, swa_weights,
                   slots, rateVars, stepVars, metricVars, swapVars, saved, trace>>

\* restore(): if self.manager.latest_checkpoint is not None:
\*     self.checkpoint.restore(self.manager.latest_checkpoint)
restore ==
    /\ pc = "init"
    /\ h.ops < MaxOps
    /\ IF saved = None
       THEN /\ UNCHANGED <<weights, global_step, swa_count, swa_weights>>
            /\ h' = [h EXCEPT !.ops = @ + 1, !.last_op = "restore",
                              !.before = Tracked]
       ELSE /\ weights' = saved[1].model
            /\ global_step' = saved[1].global_step
            /\ swa_count' = saved[1].swa_count
            /\ swa_weights' = saved[1].listed
            /\ h' = [h EXCEPT !.ops = @ + 1, !.last_op = "restore",
                              !.iterations[orig_optimizer(cfg)] =
                                  saved[1].optimizer,
                              !.before = Tracked]
    /\ UNCHANGED <<cfg, lr_boundaries, pc, err, steps, loopVars, slots, rateVars,
                   stepVars, metricVars, swapVars, saved, trace>>

NextCkpt ==
    \/ call_manager_save
    \/ mutate
    \/ restore

SpecCkpt == InitCkpt /\ [][NextCkpt]_vars

\* C20: after restore() the weights, global step, SWA count and SWA weights
\* have the values they had when the checkpoint was last saved, whatever was
\* assigned to them since; and a restore() with no checkpoint saved leaves
\* them as they were.
C20_RoundTrip ==
    h.last_op = "restore" =>
        Tracked = (IF h.at_save = None THEN h.before ELSE h.at_save)

\* a restore has undone changes made to all four since the last save
C20_Witness ==
    /\ h.last_op = "restore"
    /\ cfg.swa
    /\ h.at_save # None
    /\ h.before.weights # weights
    /\ h.before.swa_weights # swa_weights
    /\ h.before.global_step # global_step
    /\ h.before.swa_count # swa_count
    /\ global_step > 0

\* ---------------------------------------------------------------------------
\* make_value_buckets (lines 67-71)

\* tf.cast(x, tf.int64) of a float of small magnitude: the fraction is dropped
FTrunc(a) ==
    IF a.m = 0 \/ a.e <= -24 THEN 0
    ELSE IF a.e >= 0 THEN a.s * a.m * Pow2(a.e)
    ELSE a.s * (a.m \div Pow2(-a.e))

\* tf.clip_by_value on integers
clip_by_value(x, lo, hi) == IF x < lo THEN lo ELSE IF x > hi THEN hi ELSE x

\* tf.einsum("bi, i-> b", value_wdl, [1, 0.5, 0]) for one row of the batch
blended_value(value_wdl) ==
    FAdd(FAdd(FMul(value_wdl[1], One), FMul(value_wdl[2], Half)),
         FMul(value_wdl[3], Zero))

\* variant: the cast alone, without the clip
make_value_buckets_no_clip(value_wdl, num_buckets) ==
    FTrunc(FMul(blended_value(value_wdl), FromInt(num_buckets)))

make_value_buckets(value_wdl, num_buckets) ==
    LET value   == blended_value(value_wdl)
        buckets == FTrunc(FMul(value, FromInt(num_buckets)))
    IN  clip_by_value(buckets, 0, num_buckets - 1)

\* cfg["model"].get("value_buckets", 100)
DefaultBuckets == 100
\* num_buckets ranges over 1 .. MaxBuckets and the default
MaxBuckets == 4

\* win and draw probabilities of a blended target: 0, 0.1, 0.25, 0.29, 0.5, 1
WdlValues == {Zero, Tenth, Quarter, FDiv(FromInt(29), FromInt(100)), Half, One}

\* rows (win, draw, loss) whose blended value lies in [0, 1]
WdlRows ==
    { r \in [1 .. 3 -> WdlValues] :
        r[3] \in {Zero, Half} /\ FLeq(blended_value(r), One) }

InitBuckets ==
    \E r \in WdlRows, n \in (1 .. MaxBuckets) \cup {DefaultBuckets} :
        /\ Constructed(BaseCfg, 0, InitialWeights)
        /\ h = [value_wdl |-> r, num_buckets |-> n, called |-> FALSE, buckets |-> 0]

\* process_inner_loop: value_buckets = make_value_buckets(self.qMix(z, q), ...)
call_make_value_buckets ==
    /\ ~h.called
    /\ h' = [h EXCEPT !.called = TRUE,
                      !.buckets = make_value_buckets(h.value_wdl, h.num_buckets)]
    /\ UNCHANGED <<cfg, lr_boundaries, pc, err, global_step, steps, loopVars,
                   modelVars, rateVars, stepVars, metricVars, swapVars, saved,
                   trace>>

NextBuckets == call_make_value_buckets

SpecBuckets == InitBuckets /\ [][NextBuckets]_vars

\* C21: for a blended target in [0, 1] and num_buckets >= 1 the bucket index b
\* satisfies 0 <= b < num_buckets; it is 0 for the value 0 and num_buckets - 1
\* for the value 1; and for a value strictly between, b is the integer part of
\* the float32 product value * num_buckets (b <= product < b + 1).
C21_BucketIndex ==
    h.called =>
        LET value   == blended_value(h.value_wdl)
            product == FMul(value, FromInt(h.num_buckets))
            b       == h.buckets
        IN  /\ 0 <= b /\ b < h.num_buckets
            /\ value = Zero => b = 0
            /\ value = One => b = h.num_buckets - 1
            /\ (FLt(Zero, value) /\ FLt(value, One)) =>
                  (FLeq(FromInt(b), product) /\ FLt(product, FromInt(b + 1)))

\* the value 1 with the default number of buckets: the cast gives 100 and the
\* clip brings it to the last bucket
C21_Witness ==
    /\ h.called
    /\ blended_value(h.value_wdl) = One
    /\ h.num_buckets = DefaultBuckets
    /\ h.buckets = DefaultBuckets - 1

\* ---------------------------------------------------------------------------
\* correct_policy and policy_loss (lines 388-419)

\* length of a policy vector
PolicyLen == 2

\* 1.0e10, which float32 holds exactly (9765625 * 2^10)
TenBillion == [s |-> 1, m |-> 9765625, e |-> 10]

\* tf.nn.relu
relu(x) == IF FLt(x, Zero) THEN Zero ELSE x

\* variant: the logits are passed on whatever the flag says
correct_policy_unmasked(c, target, output) ==
    [ target |-> [i \in DOMAIN target |-> relu(target[i])],
      output |-> output ]

correct_policy(c, target, output) ==
    LET move_is_legal  == [i \in DOMAIN target |-> FLeq(Zero, target[i])]
        illegal_filler == [i \in DOMAIN output |-> FSub(Zero, TenBillion)]
        masked         == [i \in DOMAIN output |->
                              IF move_is_legal[i] THEN output[i]
                              ELSE illegal_filler[i]]
    IN  [ target |-> [i \in DOMAIN target |-> relu(target[i])],
          output |-> IF c.mask_legal_moves THEN masked ELSE output ]

\* tf.nn.softmax_cross_entropy_with_logits followed by tf.reduce_mean, kept as
\* the term of its arguments: equal arguments give equal losses
softmax_cross_entropy_with_logits(labels, logits) ==
    [labels |-> labels, logits |-> logits]

policy_loss(c, target, output) ==
    LET r == correct_policy(c, target, output)
    IN  softmax_cross_entropy_with_logits(r.target, r.output)

\* entries of a target: the sentinel -1 of an illegal move, 0 and 0.5
TargetValues == {FNeg(One), Zero, Half}

\* logits
LogitValues == {FNeg(One), Zero, One}

PolicyConfigs == {[BaseCfg EXCEPT !.mask_legal_moves = mk] : mk \in BOOLEAN}

InitPolicy ==
    \E c \in PolicyConfigs,
       t \in [1 .. PolicyLen -> TargetValues],
       o1 \in [1 .. PolicyLen -> LogitValues],
       o2 \in [1 .. PolicyLen -> LogitValues] :
        /\ Constructed(c, 0, InitialWeights)
        /\ h = [ target |-> t, outputs |-> <<o1, o2>>, called |-> FALSE,
                 corrected |-> <<>>, loss |-> <<>> ]

\* policy_loss on the same target and each of the two outputs
call_policy_loss ==
    /\ ~h.called
    /\ h' = [h EXCEPT !.called = TRUE,
                      !.corrected = [k \in 1 .. 2 |->
                                        correct_policy(cfg, h.target, h.outputs[k])],
                      !.loss = [k \in 1 .. 2 |->
                                   policy_loss(cfg, h.target, h.outputs[k])]]
    /\ UNCHANGED <<cfg, lr_boundaries, pc, err, global_step, steps, loopVars,
                   modelVars, rateVars, stepVars, metricVars, swapVars, saved,
                   trace>>

NextPolicy == call_policy_loss

SpecPolicy == InitPolicy /\ [][NextPolicy]_vars

\* the positions of the target that do not hold the negative sentinel
LegalMoves == {i \in DOMAIN h.target : ~FLt(h.target[i], Zero)}

\* C22: with mask_legal_moves, two outputs that agree on the legal moves give
\* the same logits to the softmax (the illegal positions hold -1e10, the legal
\* ones the output), the same clipped target and so the same policy loss; and
\* with or without the flag the sentinel of the target is clipped to 0 and the
\* other entries are kept.
C22_MaskedLogits ==
    h.called =>
        /\ (/\ cfg.mask_legal_moves
            /\ \A i \in LegalMoves : h.outputs[1][i] = h.outputs[2][i]) =>
              /\ h.corrected[1].output = h.corrected[2].output
              /\ h.corrected[1].target = h.corrected[2].target
              /\ h.loss[1] = h.loss[2]
              /\ \A i \in DOMAIN h.target :
                    h.corrected[1].output[i] =
                       IF i \in LegalMoves THEN h.outputs[1][i]
                       ELSE [s |-> -1, m |-> 9765625, e |-> 10]
        /\ \A k \in 1 .. 2 : \A i \in DOMAIN h.target :
              h.corrected[k].target[i] =
                 IF i \in LegalMoves THEN h.target[i] ELSE Zero

\* two outputs that differ on an illegal move only, and give one loss
C22_Witness ==
    /\ h.called
    /\ cfg.mask_legal_moves
    /\ h.outputs[1] # h.outputs[2]
    /\ LegalMoves # {}
    /\ \A i \in LegalMoves : h.outputs[1][i] = h.outputs[2][i]
    /\ h.loss[1] = h.loss[2]

\* ---------------------------------------------------------------------------
\* TFProcess.__init__: the strings of the configuration (lines 153-272)

\* a key that the configuration does not hold
Absent == "<absent>"

\* cfg[...].get(key, default)
get(value, default) == IF value = Absent THEN default ELSE value

ValueError == "ValueError"

\* lines 179-184
model_dtype(precision) ==
    CASE precision = "single" -> "float32"
      [] precision = "half"   -> "float16"
      [] OTHER                -> ValueError

\* lines 203-216
DEFAULT_ACTIVATION(default_activation) ==
    CASE default_activation = "relu" -> "relu"
      [] default_activation = "mish" -> "mish"
      [] default_activation = "gelu" -> "gelu"
      [] OTHER                       -> ValueError

\* lines 221-227
POLICY_HEAD(policy_head) ==
    CASE policy_head = "attention" -> "POLICY_ATTENTION"
      [] OTHER                     -> ValueError

\* variant: an unknown value head is taken to be the default one
VALUE_HEAD_defaulting(value_head) ==
    CASE value_head = "classical" -> "VALUE_CLASSICAL"
      [] OTHER                    -> "VALUE_WDL"

\* lines 231-239
VALUE_HEAD(value_head) ==
    CASE value_head = "classical" -> "VALUE_CLASSICAL"
      [] value_head = "wdl"       -> "VALUE_WDL"
      [] OTHER                    -> ValueError

\* lines 243-251
MOVES_LEFT_HEAD(moves_left_head) ==
    CASE moves_left_head = "none" -> "MOVES_LEFT_NONE"
      [] moves_left_head = "v1"   -> "MOVES_LEFT_V1"
      [] OTHER                    -> ValueError

\* lines 255-271
INPUT_MODE(input_mode) ==
    CASE input_mode = "classic"      -> "INPUT_CLASSICAL_112_PLANE"
      [] input_mode = "frc_castling" -> "INPUT_112_WITH_CASTLING_PLANE"
      [] input_mode = "canonical"    -> "INPUT_112_WITH_CANONICALIZATION"
      [] input_mode = "canonical_100" ->
            "INPUT_112_WITH_CANONICALIZATION_HECTOPLIES"
      [] input_mode = "canonical_armageddon" ->
            "INPUT_112_WITH_CANONICALIZATION_HECTOPLIES_ARMAGEDDON"
      [] input_mode = "canonical_v2" -> "INPUT_112_WITH_CANONICALIZATION_V2"
      [] input_mode = "canonical_v2_armageddon" ->
            "INPUT_112_WITH_CANONICALIZATION_V2_ARMAGEDDON"
      [] OTHER                       -> ValueError

\* the checks of __init__ in the order of the code; the first that fails ends
\* the construction, and the global step variable is created after the last
TFProcess_init(s) ==
    LET checks == << <<"precision", model_dtype(get(s.precision, "single"))>>,
                     <<"default_activation",
                       DEFAULT_ACTIVATION(get(s.default_activation, "relu"))>>,
                     <<"policy", POLICY_HEAD(get(s.policy, "attention"))>>,
                     <<"value", VALUE_HEAD(get(s.value, "wdl"))>>,
                     <<"moves_left", MOVES_LEFT_HEAD(get(s.moves_left, "v1"))>>,
                     <<"input_type", INPUT_MODE(get(s.input_type, "classic"))>> >>
        failed == {k \in DOMAIN checks : checks[k][2] = ValueError}
        first  == IF failed = {} THEN Len(checks) + 1
                  ELSE CHOOSE k \in failed : \A j \in failed : k <= j
    IN  [ err         |-> IF failed = {} THEN "none" ELSE ValueError,
          raised_for  |-> IF failed = {} THEN Absent ELSE checks[first][1],
          set         |-> [k \in 1 .. (first - 1) |-> checks[k][2]],
          global_step |-> failed = {} ]

\* configurations: each key absent, given a supported string that is not the
\* default, or given an unsupported string
ModelStrings ==
    [ precision          : {Absent, "half", "double"},
      default_activation : {Absent, "mish", "swish"},
      policy             : {Absent, "attention", "classical"},
      value              : {Absent, "classical", "categorical"},
      moves_left         : {Absent, "none", "v2"},
      input_type         : {Absent, "canonical_v2", "canonical_200"} ]

InitConstruct ==
    \E s \in ModelStrings :
        /\ Constructed(BaseCfg, 0, InitialWeights)
        /\ pc = "init"
        /\ h = [strings |-> s, called |-> FALSE, result |-> <<>>]

\* TFProcess(cfg)
call_init ==
    /\ ~h.called
    /\ h' = [h EXCEPT !.called = TRUE, !.result = TFProcess_init(h.strings)]
    /\ UNCHANGED <<cfg, lr_boundaries, pc, err, global_step, steps, loopVars,
                   modelVars, rateVars, stepVars, metricVars, swapVars, saved,
                   trace>>

NextConstruct == call_init

SpecConstruct == InitConstruct /\ [][NextConstruct]_vars

\* the strings the program supports for each key
Supported ==
    [ precision          |-> {"single", "half"},
      default_activation |-> {"relu", "mish", "gelu"},
      policy             |-> {"attention"},
      value              |-> {"classical", "wdl"},
      moves_left         |-> {"none", "v1"},
      input_type         |-> {"classic", "frc_castling", "canonical",
                              "canonical_100", "canonical_armageddon",
                              "canonical_v2", "canonical_v2_armageddon"} ]

\* the keys given a string that is not supported
UnknownKeys ==
    {k \in DOMAIN Supported :
        h.strings[k] # Absent /\ h.strings[k] \notin Supported[k]}

\* C23: when precision, default_activation, policy, value, moves_left or
\* input_type holds an unknown string, the construction raises ValueError for
\* one of those keys, before the global step variable exists; and it completes
\* only when no key holds an unknown string, so none is replaced by a default.
C23_UnknownStringRaises ==
    h.called =>
        /\ UnknownKeys # {} =>
              /\ h.result.err = ValueError
              /\ h.result.raised_for \in UnknownKeys
              /\ ~h.result.global_step
        /\ UnknownKeys = {} =>
              /\ h.result.err = "none"
              /\ h.result.global_step
              /\ Len(h.result.set) = 6

\* an unknown value head with everything before it supported: the error names
\* the value head and only the three earlier settings were made
C23_Witness ==
    /\ h.called
    /\ h.strings.value = "categorical"
    /\ h.strings.precision = "half"
    /\ h.result.err = ValueError
    /\ h.result.raised_for = "value"
    /\ Len(h.result.set) = 3
    /\ ~h.result.global_step

\* ------------------------------------------------------------------------
\* C24: malformed configuration and the start of training
\* ------------------------------------------------------------------------

\* a configuration with an optimizer flag combination the program does not
\* support, or with a batch size that virtual_batch_size does not divide
UnsupportedOptimizerFlags(c) ==
    \/ c.loss_scale # 1
         /\ (c.rmsprop_optimizer \/ c.nadam_optimizer \/ c.lookahead_optimizer)
    \/ Cardinality({f \in {"rmsprop", "nadam"} :
                      IF f = "rmsprop" THEN c.rmsprop_optimizer
                      ELSE c.nadam_optimizer}) > 1

BatchSizeMismatch(c) ==
    c.virtual_batch_size # 0 /\ c.batch_size % c.virtual_batch_size # 0

\* C24: under a malformed configuration the run is rejected with an error
\* before any test batch or training micro-batch has been consumed and with
\* global_step still at its restored value
C24_MalformedFailsFast ==
    (UnsupportedOptimizerFlags(cfg) \/ BatchSizeMismatch(cfg)) =>
        /\ pc \in {"init", "raised"}
        /\ test_pos = 0
        /\ train_pos = 0
        /\ global_step = loop_steps

\* the batch size mismatch alone is rejected at the start of process_loop
C24_BatchSizeRejected ==
    BatchSizeMismatch(cfg) =>
        /\ pc \in {"init", "raised"}
        /\ test_pos = 0
        /\ train_pos = 0
        /\ global_step = loop_steps

\* a run with loss scaling under RMSprop fails inside the first training
\* micro-batch, after the test pass that precedes the step
C24_FailsMidTraining ==
    /\ UnsupportedOptimizerFlags(cfg)
    /\ pc = "raised"
    /\ err = "AttributeError"
    /\ test_pos > 0
    /\ train_pos > 0

\* a run with two optimizer flags set trains to the end
C24_SeveralFlagsAccepted ==
    /\ cfg.rmsprop_optimizer /\ cfg.nadam_optimizer
    /\ pc = "returned"
    /\ global_step > loop_steps

\* ------------------------------------------------------------------------
\* C25: errors of replace_weights
\* ------------------------------------------------------------------------

\* the tensors of the file of the last replace_weights that are missing or have
\* the wrong element count
BadTensors == {i \in WeightIdx : h.proto.kind[i] # "ok"}

\* C25: after a replace_weights call: with ignore_errors false a head format
\* mismatch raises ValueError with every weight as before the call, and a
\* missing or wrong-length tensor raises an error; with ignore_errors true the
\* call returns normally whatever the head formats, every such tensor keeps
\* the value it had before the call and every other tensor holds the value of
\* the file
C25_ReplaceErrors ==
    h.last_op = "replace_weights" =>
        /\ (~h.ignore_errors /\ ~h.proto.format_ok) =>
              /\ pc = "raised"
              /\ err = "ValueError"
              /\ weights = h.before.weights
        /\ (~h.ignore_errors /\ h.proto.format_ok /\ BadTensors # {}) =>
              /\ pc = "raised"
              /\ err = "KeyError"
        /\ h.ignore_errors =>
              /\ pc = "init"
              /\ err = "none"
              /\ \A i \in WeightIdx :
                    weights[i] = IF i \in BadTensors
                                 THEN h.before.weights[i]
                                 ELSE h.proto.value[i]

\* a call with ignore_errors true on a file with mismatching head formats and
\* one unusable tensor: that tensor kept, the others loaded
C25_Witness ==
    /\ h.last_op = "replace_weights"
    /\ h.ignore_errors
    /\ ~h.proto.format_ok
    /\ BadTensors # {}
    /\ err = "none"
    /\ \E i \in BadTensors : weights[i] = h.before.weights[i]
    /\ \E i \in WeightIdx \ BadTensors :
          weights[i] = h.proto.value[i] /\ weights[i] # h.before.weights[i]

\* a call with ignore_errors false stopped by the head formats
C25_WitnessFormat ==
    /\ h.last_op = "replace_weights"
    /\ ~h.ignore_errors
    /\ ~h.proto.format_ok
    /\ err = "ValueError"
    /\ h.ops > 1

\* ------------------------------------------------------------------------
\* C26: the stop marker
\* ------------------------------------------------------------------------

\* the training thread keeps running and a stop file that is there is removed
\* in the end; sleep changes nothing, so no step of the pause is forced
SpecLive == Spec /\ WF_vars(Next)

\* what a pause must leave alone
PausedState == <<global_step, weights, swa_weights, slots, train_metrics,
                 test_metrics, thr_metrics>>

\* the steps a process_loop call started at loop_steps has to make
RemainingSteps == cfg.total_steps - (loop_steps % cfg.total_steps)

\* the loop has returned after all its steps
AllStepsDone ==
    /\ pc = "returned"
    /\ global_step = loop_steps + RemainingSteps

C26_PauseFrame ==
    /\ [][(pc' = "process" /\ pc # "process") => (pc = "poll" /\ ~stop)]_vars
    /\ [][(pc = "poll" /\ stop) => UNCHANGED <<pc, PausedState>>]_vars

\* with SWA enabled, test data that does not run out and the SGD optimizer, a
\* loop that was paused and has ended has returned after all its steps
C26_ResumedRunsComplete ==
    (pauses > 0 /\ pc \in {"returned", "raised"} /\ cfg.swa
       /\ cfg.test_limit = 0 /\ ~scaling_methods_missing(cfg)) => AllStepsDone

\* a run that was paused and resumed and then ended in an exception
C26_PausedThenRaised ==
    /\ pauses > 0
    /\ ~stop
    /\ ~cfg.swa
    /\ pc = "raised"
    /\ err = "TypeError"
    /\ global_step < loop_steps + RemainingSteps

\* ------------------------------------------------------------------------
\* the metric lists of process_inner_loop and
\* calculate_test_summaries_inner_loop (lines 829-896, 1141-1195)
\* ------------------------------------------------------------------------

\* a tensor: the function that made it, its integer arguments, and the factor
\* num / den the metric list applies to it
Term(fn, args) == [fn |-> fn, args |-> args, num |-> 1, den |-> 1]

\* a local variable that has not been assigned
Unbound == Term("<unbound>", <<>>)

\* tf.constant(n)
constant(n) == Term("constant", <<n>>)

Times(t, n) == [t EXCEPT !.num = @ * n]

Over(t, n) == [t EXCEPT !.den = @ * n]

\* the local variables of the two functions
LocalNames ==
    {"policy_loss", "reg_term", "value_ce_loss", "value_mse_loss", "value_loss",
     "moves_left_loss", "moves_left_mean_error", "value_catl", "total_loss",
     "policy_accuracy", "policy_entropy", "policy_ul", "policy_sl", "policy_rl",
     "policy_thresholded_accuracies", "value_cat_accuracy", "mse_loss",
     "value_accuracy"}

NoLocals == [n \in LocalNames |-> Unbound]

\* name = v
Assign(l, name, v) == [l EXCEPT ![name] = v]

\* tf.matmul(target, wdl) for the one-hot target row z (1 win, 2 draw, 3 loss)
scalar_target(z) == 2 - z

\* self.value_loss_fn (lines 526-543)
value_loss_fn(wdl, z, value) ==
    IF wdl THEN Term("softmax_cross_entropy_with_logits", <<z, value>>)
    ELSE constant(0)

\* self.mse_loss_fn (lines 535-554): on the softmax of the output in WDL mode,
\* on the output itself in scalar mode
mse_loss_fn(wdl, z, value) ==
    IF wdl THEN Term("squared_difference_softmax", <<scalar_target(z), value>>)
    ELSE Term("squared_difference",
              <<(scalar_target(z) - value) * (scalar_target(z) - value)>>)

\* the assignments both functions make whatever the heads are
CommonLocals(z, value) ==
    [n \in LocalNames |->
        IF n \in {"policy_loss", "policy_accuracy", "policy_entropy",
                  "policy_ul", "policy_sl", "policy_rl",
                  "policy_thresholded_accuracies"}
        THEN Term(n, <<>>)
        ELSE IF n \in {"value_catl", "value_cat_accuracy"}
        THEN Term(n, <<z, value>>)
        ELSE NoLocals[n]]

\* metrics = [...]: the names read, in order, with the factor applied to each
TrainMetricReads ==
    << <<"policy_loss", 1, 1>>, <<"value_loss", 1, 1>>,
       <<"moves_left_loss", 1, 1>>, <<"reg_term", 1, 1>>,
       <<"total_loss", 1, 1>>, <<"mse_loss", 1, 4>>,
       <<"policy_accuracy", 100, 1>>, <<"value_accuracy", 100, 1>>,
       <<"policy_entropy", 1, 1>>, <<"policy_ul", 1, 1>>,
       <<"policy_sl", 1, 1>>, <<"policy_rl", 1, 1>>,
       <<"value_catl", 1, 1>>, <<"value_cat_accuracy", 100, 1>>,
       <<"policy_thresholded_accuracies", 100, 1>> >>

TestMetricReads ==
    << <<"policy_loss", 1, 1>>, <<"value_loss", 1, 1>>,
       <<"moves_left_loss", 1, 1>>, <<"mse_loss", 1, 4>>,
       <<"policy_accuracy", 100, 1>>, <<"value_accuracy", 100, 1>>,
       <<"moves_left_mean_error", 1, 1>>, <<"policy_entropy", 1, 1>>,
       <<"policy_ul", 1, 1>>, <<"policy_sl", 1, 1>>,
       <<"policy_rl", 1, 1>>, <<"value_catl", 1, 1>>,
       <<"value_cat_accuracy", 100, 1>>,
       <<"policy_thresholded_accuracies", 100, 1>> >>

\* building the list from the local variables l: reading a name that was never
\* assigned raises UnboundLocalError
build_metrics(l, reads) ==
    IF \E k \in DOMAIN reads : l[reads[k][1]] = Unbound
    THEN [err |-> "UnboundLocalError", metrics |-> <<>>]
    ELSE [err     |-> "none",
          metrics |-> [k \in DOMAIN reads |->
                         [name  |-> reads[k][1],
                          value |-> Over(Times(l[reads[k][1]], reads[k][2]),
                                         reads[k][3])]]]

\* process_inner_loop, lines 871-876
train_locals_after_tape(l, wdl, z, value) ==
    IF wdl
    THEN Assign(Assign(l, "mse_loss", mse_loss_fn(wdl, z, value)),
                "value_accuracy", Term("accuracy", <<z, value>>))
    ELSE Assign(Assign(l, "value_loss", value_loss_fn(wdl, z, value)),
                "value_accuracy", constant(0))

\* process_inner_loop on one batch: target row z, value output, moves target m
process_inner_loop(wdl, moves_left, z, value, m) ==
    LET l0 == Assign(CommonLocals(z, value), "reg_term", Term("losses", <<>>))
        \* under the tape (lines 839-844)
        l1 == IF wdl
              THEN Assign(Assign(l0, "value_ce_loss",
                                 value_loss_fn(wdl, z, value)),
                          "value_loss", value_loss_fn(wdl, z, value))
              ELSE Assign(Assign(l0, "value_mse_loss",
                                 mse_loss_fn(wdl, z, value)),
                          "value_loss", mse_loss_fn(wdl, z, value))
        l2 == Assign(l1, "moves_left_loss",
                     IF moves_left THEN Term("moves_left_loss", <<m>>)
                     ELSE constant(0))
        l3 == Assign(l2, "total_loss", Term("lossMix", l2["value_loss"].args))
        l4 == train_locals_after_tape(l3, wdl, z, value)
    IN  build_metrics(l4, TrainMetricReads)

\* calculate_test_summaries_inner_loop on one batch
calculate_test_summaries_inner_loop(wdl, moves_left, z, value, m) ==
    LET l0 == CommonLocals(z, value)
        l1 == Assign(Assign(Assign(l0, "value_loss",
                                   value_loss_fn(wdl, z, value)),
                            "mse_loss", mse_loss_fn(wdl, z, value)),
                     "value_accuracy",
                     IF wdl THEN Term("accuracy", <<z, value>>)
                     ELSE constant(0))
        l2 == IF moves_left
              THEN Assign(Assign(l1, "moves_left_loss",
                                 Term("moves_left_loss", <<m>>)),
                          "moves_left_mean_error",
                          Term("moves_left_mean_error", <<m>>))
              ELSE Assign(Assign(l1, "moves_left_loss", constant(0)),
                          "moves_left_mean_error", constant(0))
    IN  build_metrics(l2, TestMetricReads)

\* the heads of the model and one batch
InnerInputs ==
    [wdl : BOOLEAN, moves_left : BOOLEAN, z : 1 .. 3, value : -1 .. 1,
     m : 0 .. 1]

\* h: the heads, the batch, the function called last and the list it returned
InitInner ==
    \E i \in InnerInputs :
        /\ Constructed(BaseCfg, 0, InitialWeights)
        /\ h = [in |-> i, fn |-> "none", metrics |-> <<>>]

inner_call(fn, r) ==
    /\ pc = "init"
    /\ h.fn = "none"
    /\ h' = [h EXCEPT !.fn = fn, !.metrics = r.metrics]
    /\ err' = r.err
    /\ pc' = IF r.err = "none" THEN "returned" ELSE "raised"
    /\ UNCHANGED <<cfg, lr_boundaries, global_step, steps, loopVars, modelVars,
                   rateVars, stepVars, metricVars, swapVars, saved, trace>>

call_process_inner_loop ==
    inner_call("process_inner_loop",
               process_inner_loop(h.in.wdl, h.in.moves_left, h.in.z,
                                  h.in.value, h.in.m))

call_calculate_test_summaries_inner_loop ==
    inner_call("calculate_test_summaries_inner_loop",
               calculate_test_summaries_inner_loop(h.in.wdl, h.in.moves_left,
                                                   h.in.z, h.in.value, h.in.m))

NextInner ==
    \/ call_process_inner_loop
    \/ call_calculate_test_summaries_inner_loop

SpecInner == InitInner /\ [][NextInner]_vars

\* the values the returned list holds under a name
MetricNamed(n) ==
    {h.metrics[k].value : k \in {j \in DOMAIN h.metrics : h.metrics[j].name = n}}

\* C27: in scalar value mode a call of process_inner_loop or of
\* calculate_test_summaries_inner_loop returns normally with a list whose
\* value loss is the constant zero and whose MSE entry is a computed value:
\* no name read when the list is built was left unassigned
C27_ScalarModeMetrics ==
    (h.fn # "none" /\ ~h.in.wdl) =>
        /\ pc = "returned"
        /\ err = "none"
        /\ MetricNamed("value_loss") = {constant(0)}
        /\ \E v \in MetricNamed("mse_loss") : v.fn = "squared_difference"

\* the test computation by itself
C27_TestPathDefined ==
    (h.fn = "calculate_test_summaries_inner_loop" /\ ~h.in.wdl) =>
        /\ pc = "returned"
        /\ err = "none"
        /\ MetricNamed("value_loss") = {constant(0)}
        /\ \E v \in MetricNamed("mse_loss") : v.fn = "squared_difference"

\* the training computation in WDL mode
C27_WdlTrainDefined ==
    (h.fn = "process_inner_loop" /\ h.in.wdl) =>
        /\ err = "none"
        /\ \E v \in MetricNamed("mse_loss") :
              v.fn = "squared_difference_softmax"

\* the training computation in scalar mode raises when it builds its list
C27_ScalarTrainRaises ==
    /\ h.fn = "process_inner_loop"
    /\ ~h.in.wdl
    /\ pc = "raised"
    /\ err = "UnboundLocalError"
    /\ h.metrics = <<>>

\* ------------------------------------------------------------------------
\* C28: train and test metric accumulators
\* ------------------------------------------------------------------------

\* self.train_metrics and self.test_metrics: the fixed metrics of each list
\* followed by the thresholded policy accuracies
TrainMetricList == <<train_metrics, thr_metrics>>

TestMetricList == <<test_metrics, thr_metrics>>

\* a test or validation pass is being made
InTestPass ==
    pc \in {"pretest", "test", "pretest_swa_eval", "test_swa_eval",
            "validate", "validate_swa_eval"}

\* a training micro-batch is being accumulated
InMicroBatch == pc = "train" /\ batch_id < cfg.batch_splits

\* C28: a test or validation pass leaves the (sum, count) of every train
\* metric as it was, and the accumulation of a training micro-batch leaves
\* every test metric as it was, the thresholded policy accuracies included
C28_IndependentAccumulators ==
    [][/\ InTestPass => TrainMetricList' = TrainMetricList
       /\ InMicroBatch => TestMetricList' = TestMetricList]_vars

\* the same for the fixed metrics alone
C28_FixedIndependent ==
    [][/\ InTestPass => train_metrics' = train_metrics
       /\ InMicroBatch => test_metrics' = test_metrics]_vars

\* after a test pass and before any training micro-batch, the thresholded
\* accuracies of the train list hold the batches of the test pass
C28_TestValuesInTrainList ==
    /\ train_metrics.count = 0
    /\ train_pos = 0
    /\ TrainMetricList[2].count > 0

\* after a test pass and a training micro-batch, the thresholded accuracies of
\* the test list hold one value more than the fixed test metrics
C28_TrainValuesInTestList ==
    /\ test_metrics.count > 0
    /\ TestMetricList[2].count > test_metrics.count

\* ------------------------------------------------------------------------
\* C29: the checkpoint branch under both SWA settings
\* ------------------------------------------------------------------------

\* the current process() call has reached its checkpoint branch
CheckpointStarted == EventsAt({"save"}) # {}

\* C29: a process() call that saves a checkpoint does not raise, whether SWA is
\* enabled or not; with SWA disabled, once the call is over the live snapshot
\* has been exported, no SWA snapshot was made from swapped weights, and the
\* live weights are the ones the training step produced
C29_CheckpointCompletes ==
    CheckpointStarted =>
        /\ pc # "raised"
        /\ (pc = "end" /\ ~cfg.swa) =>
              /\ EventsAt({"export"}) # {}
              /\ EventsAt({"export_swa"}) = {}
              /\ backup = None
              /\ \A i \in EventsAt({"incr"}) : weights = trace[i].w

\* with SWA enabled no process() call that saves a checkpoint raises, and each
\* ends with the live weights of its training step
C29_CompletesWithSwa ==
    (CheckpointStarted /\ cfg.swa) =>
        /\ pc # "raised"
        /\ pc = "end" => \A i \in EventsAt({"incr"}) : weights = trace[i].w

\* with SWA disabled the call is left by the TypeError of the SWA export, the
\* live weights being those of the training step
C29_RaisesWithoutSwa ==
    /\ CheckpointStarted
    /\ ~cfg.swa
    /\ swa_weights = None
    /\ pc = "raised"
    /\ err = "TypeError"
    /\ \A i \in EventsAt({"incr"}) : weights = trace[i].w

\* with SWA disabled no process() call gets past its checkpoint branch
C29_NeverCompletesWithoutSwa ==
    (CheckpointStarted /\ ~cfg.swa) => pc # "end"

\* ------------------------------------------------------------------------
\* the training flag of the layers of the network (construct_net, lines
\* 1468-1600; encoder_layer, lines 1409-1445) under self.model(x, training=..)
\* ------------------------------------------------------------------------

\* number of encoder blocks of the largest network
MaxEncoderLayers == 2

\* calls of the model in one run
MaxModelCalls == 2

\* cfg["model"]["dropout_rate"] in percent; 0 is the default
DropoutRates == {0, 10, 50}

\* a layer of the functional model: its name, its class, and the training
\* argument it was called with when the graph was built ("call" when none was
\* given, so that the layer takes the flag of the model call)
Layer(name, class, training) ==
    [name |-> name, class |-> class, training |-> training]

\* encoder_layer(..., training): the layers of block i; the two Dropout layers
\* are called with training=training
encoder_layer(i, training) ==
    << Layer(<<"encoder", i, "mha">>, "Dense", "call"),
       Layer(<<"encoder", i, "dropout1">>, "Dropout", training),
       Layer(<<"encoder", i, "norm1">>, "Norm", "call"),
       Layer(<<"encoder", i, "ffn">>, "Dense", "call"),
       Layer(<<"encoder", i, "dropout2">>, "Dropout", training),
       Layer(<<"encoder", i, "norm2">>, "Norm", "call"),
       Layer(<<"encoder", i, "major_ffn">>, "Dense", "call"),
       Layer(<<"encoder", i, "norm3">>, "Norm", "call") >>

\* the blocks i .. n one after the other, each built with training=True
RECURSIVE encoder_blocks(_, _)
encoder_blocks(i, n) ==
    IF i > n THEN <<>>
    ELSE encoder_layer(i, "True") \o encoder_blocks(i + 1, n)

\* construct_net: embedding, the encoder blocks, the heads
construct_net(encoder_layers) ==
    << Layer(<<"embedding", 0, "dense">>, "Dense", "call") >>
    \o encoder_blocks(1, encoder_layers)
    \o << Layer(<<"policy", 0, "embedding">>, "Dense", "call"),
          Layer(<<"value", 0, "embedding">>, "Dense", "call"),
          Layer(<<"moves_left", 0, "embedding">>, "Dense", "call") >>

\* self.model(x, training=training): every layer runs, with the training
\* argument fixed when the graph was built if there is one, else with the
\* flag of the call
model_call(layers, training) ==
    [k \in DOMAIN layers |->
        [name     |-> layers[k].name,
         class    |-> layers[k].class,
         training |-> IF layers[k].training = "call" THEN training ELSE TRUE]]

\* the Dropout layers of an execution that may zero units: training flag set
\* and a positive rate
ActiveDropout(executed, dropout_rate) ==
    {k \in DOMAIN executed :
        /\ executed[k].class = "Dropout"
        /\ executed[k].training
        /\ dropout_rate > 0}

\* h: the network, the function called last, the layers it executed, the
\* Dropout layers that zeroed a unit, and the number of calls
InitMode ==
    \E n \in 1 .. MaxEncoderLayers, r \in DropoutRates :
        /\ Constructed(BaseCfg, 0, InitialWeights)
        /\ h = [encoder_layers |-> n, dropout_rate |-> r, fn |-> "none",
                executed |-> <<>>, dropped |-> {}, calls |-> 0]

\* one call of the model by fn with the given flag; which units a Dropout
\* layer in training mode zeroes is random
run_model(fn, training) ==
    /\ pc = "init"
    /\ h.calls < MaxModelCalls
    /\ LET ex == model_call(construct_net(h.encoder_layers), training)
       IN  \E d \in SUBSET ActiveDropout(ex, h.dropout_rate) :
              h' = [h EXCEPT !.fn = fn, !.executed = ex, !.dropped = d,
                             !.calls = @ + 1]
    /\ UNCHANGED <<cfg, lr_boundaries, pc, err, global_step, steps, loopVars,
                   modelVars, rateVars, stepVars, metricVars, swapVars, saved,
                   trace>>

\* process_inner_loop: outputs = self.model(x, training=True)
train_model_call == run_model("process_inner_loop", TRUE)

\* calculate_test_summaries_inner_loop: outputs = self.model(x, training=False)
test_model_call == run_model("calculate_test_summaries_inner_loop", FALSE)

NextMode ==
    \/ train_model_call
    \/ test_model_call

SpecMode == InitMode /\ [][NextMode]_vars

\* C30: while calculate_test_summaries_inner_loop evaluates a batch no layer
\* of the network runs with its training flag set, and no Dropout layer zeroes
\* a unit
C30_InferenceMode ==
    h.fn = "calculate_test_summaries_inner_loop" =>
        /\ \A k \in DOMAIN h.executed : ~h.executed[k].training
        /\ h.dropped = {}

\* every layer other than the Dropout layers runs in inference mode in a test
\* evaluation
C30_OtherLayersInference ==
    h.fn = "calculate_test_summaries_inner_loop" =>
        \A k \in DOMAIN h.executed :
            h.executed[k].class # "Dropout" => ~h.executed[k].training

\* a test evaluation in which a Dropout layer of an encoder block has zeroed
\* units
C30_DropoutInTest ==
    /\ h.fn = "calculate_test_summaries_inner_loop"
    /\ h.dropout_rate > 0
    /\ \E k \in h.dropped :
          /\ h.executed[k].class = "Dropout"
          /\ h.executed[k].training

====
